---------------------------- MODULE Spec2Model ----------------------------
(***************************************************************************)
(* Model of gorcon/telnet: the client Conn (Dial, auth, execute, Execute,  *)
(* Close, the background relay processReadResponse) talking to one of the  *)
(* repository's two protocol peers (telnettest.Server, MockServer) over a  *)
(* pair of byte streams (Spec), an interactive session of DialInteractive  *)
(* with the same peers, whose serve goroutine accepts the connection and   *)
(* whose owner may call the server's Close (SpecInteractive), the errors   *)
(* channel of a MockServer under any reports (SpecReport), two goroutines  *)
(* that call Close of one Server at once (SpecClosers), and the client     *)
(* with the peers that have no delay under a fair scheduler (SpecLive).    *)
(*                                                                         *)
(* Text.  A Go string is a sequence of units.  A unit is one byte of the   *)
(* string; the fixed phrases of the protocol, which the code only ever     *)
(* compares, searches and concatenates whole, are written as one unit      *)
(* each.  Passwords, line terminators, NUL padding and the long commands   *)
(* are spelled byte by byte, because the code counts and slices them.      *)
(*                                                                         *)
(* Time.  ExecuteTickTimeout (1 s) is a sleep.  A peer step that has no    *)
(* configured delay, the transport and the relay take far less than the    *)
(* window, so the window ends only when none of them can move (Urgent).    *)
(* A CommandResponseDelay above the window is the class SlowDelay: a       *)
(* handler that starts to sleep inside a window wakes only after that      *)
(* window has ended, at any later moment.  The delays the repository's own *)
(* tests configure (10 ms) are far below the window and count as none.     *)
(* ReceiveWaitPeriod (3 ms) is a sleep too; a sleep of a session that ends *)
(* while the peer or the relay can still move is recorded (rushed), and in *)
(* a session SlowDelay is a delay above the wait periods.                  *)
(*                                                                         *)
(* Transport.  What one Write puts on the socket arrives whole and in      *)
(* order.  The peers' bufio.Writer flushes by itself only at 4096 buffered *)
(* bytes, which no run here reaches.  A client that closes its socket with *)
(* bytes of the peer unread resets the connection: the read of the peer's  *)
(* command loop then ends with the end of the stream or with an error.     *)
(* The server accepts one connection.                                      *)
(*                                                                         *)
(* The accumulator.  execute reads Conn.buffer (String) and then replaces  *)
(* it (a struct assignment) while the relay may be inside Write on the     *)
(* same bytes.Buffer: a data race.  Its outcomes here are the unit that is *)
(* appended between the two statements and dropped by the reset, the       *)
(* Write whose slice header lands after the reset and brings the old       *)
(* content back, and the Write that indexes the fresh nil slice and        *)
(* panics.  A torn read of the slice header by String() is left out.       *)
(***************************************************************************)
EXTENDS Integers, Sequences, FiniteSets, TLC

----------------------------------------------------------------------------
(* Strings                                                                 *)

NUL == "\\x00"
CR  == "\r"
LF  == "\n"

\* src/telnet.go:28
CRLF == <<CR, LF>>

\* src/telnet.go:31
NullString == <<NUL>>

\* unicode.IsSpace on the units of the model
IsSpace(u) == u \in {CR, LF, " ", "\t"}

\* s[from..] and s[..to] in Go's slice notation, 1-based here
Drop(s, n) == SubSeq(s, n + 1, Len(s))
Take(s, n) == SubSeq(s, 1, n)

HasPrefix(s, p) == Len(p) <= Len(s) /\ Take(s, Len(p)) = p
HasSuffix(s, p) == Len(p) <= Len(s) /\ Drop(s, Len(s) - Len(p)) = p

\* strings.Index: the first position (1-based) where sub occurs in s, 0 if none
Index(s, sub) ==
    LET at == {i \in 1..(Len(s) - Len(sub) + 1) : SubSeq(s, i, i + Len(sub) - 1) = sub}
    IN  IF at = {} THEN 0 ELSE CHOOSE i \in at : \A j \in at : i <= j

\* strings.Contains
Contains(s, sub) == Index(s, sub) # 0

\* strings.TrimPrefix / strings.TrimSuffix
TrimPrefix(s, p) == IF HasPrefix(s, p) THEN Drop(s, Len(p)) ELSE s
TrimSuffix(s, p) == IF HasSuffix(s, p) THEN Take(s, Len(s) - Len(p)) ELSE s

\* strings.TrimSpace
TrimSpace(s) ==
    IF \A i \in 1..Len(s) : IsSpace(s[i]) THEN <<>>
    ELSE LET lo == CHOOSE i \in 1..Len(s) :
                       ~IsSpace(s[i]) /\ \A j \in 1..(i - 1) : IsSpace(s[j])
             hi == CHOOSE i \in 1..Len(s) :
                       ~IsSpace(s[i]) /\ \A j \in (i + 1)..Len(s) : IsSpace(s[j])
         IN  SubSeq(s, lo, hi)

\* strings.ReplaceAll(s, NullString, "")
RemoveNull(s) == SelectSeq(s, LAMBDA u : u # NUL)

\* strings.Split(s, sep): the pieces between the non-overlapping occurrences
\* of sep, found left to right
RECURSIVE Split(_, _)
Split(s, sep) ==
    LET i == Index(s, sep)
    IN  IF i = 0 THEN <<s>>
        ELSE <<Take(s, i - 1)>> \o Split(Drop(s, i + Len(sep) - 1), sep)

\* a string of n copies of one byte, string(make([]byte, n)) in the tests
Fill(n, u) == [i \in 1..n |-> u]


----------------------------------------------------------------------------
(* Protocol texts                                                          *)

\* src/telnet.go:16
MaxCommandLen == 1000

\* src/telnet.go:22
DefaultExitCommand == <<"exit">>
ForcedExitCommand  == <<":q">>

\* src/telnet.go:41-45
ResponseEnterPassword         == <<"Please enter password">>
ResponseAuthSuccess           == <<"Logon successful.">>
ResponseAuthIncorrectPassword == <<"Password incorrect, please enter password:">>
ResponseAuthTooManyFails      == <<"Too many failed login attempts!">>
ResponseWelcome ==
    <<"Press 'help' to get a list of all commands. Press 'exit' to end session.">>

\* src/telnet.go:49, applied by fmt.Sprintf to a command and an address
ResponseINFLayout(command, addr) ==
    <<"INF Executing command '">> \o command \o <<"' by Telnet from ">> \o addr

\* src/telnettest/server.go:17-29 (and MockAuthSuccessWelcomeMessage): a raw
\* string literal, so its lines end in LF alone; its last line is the text of
\* ResponseWelcome
AuthSuccessWelcomeMessage ==
    <<"*** Connected with 7DTD server. [...] Difficulty:  2", LF, LF>>
        \o ResponseWelcome

\* errors of src/telnet.go:52-72; nil is Go's nil error
\* an error is its text, so that fmt.Errorf can compose errors
nil                      == <<>>
ErrAuthFailed            == <<"authentication failed">>
ErrAuthUnexpectedMessage == <<"unexpected authentication response">>
ErrCommandTooLong        == <<"command too long">>
ErrCommandEmpty          == <<"command too small">>
ErrMultiErrorOccurred    == <<"an error occurred while handling another error">>
ErrWrite                 == <<"write: use of closed network connection">>
ErrClose                 == <<"close: use of closed network connection">>
\* the error of a close(2) that the system fails
ErrCloseIO               == <<"close: input/output error">>
\* the error of a dial to a listener that is closed
ErrConnRefused           == <<"connect: connection refused">>

\* the client's end of the socket, c.LocalAddr() and the peer's conn.RemoteAddr()
LocalAddr == <<"127.0.0.1:54321">>

\* the timestamp the handlers of the tests put before the echo line
Stamp == <<"2020-11-14T23:09:20 31220.643 ">>

EchoLine(request) == Stamp \o ResponseINFLayout(request, LocalAddr) \o CRLF

UnknownCommand(request) ==
    <<"*** ERROR: unknown command '">> \o request \o <<"'">> \o CRLF

----------------------------------------------------------------------------
(* The peers' handlers.  A handler returns what it writes to the           *)
(* connection's bufio.Writer, whether it flushes, and the Auth result it   *)
(* leaves in the Context.                                                  *)

Password  == <<"p", "a", "s", "s", "w", "o", "r", "d">>
Sentinel  == <<"u", "n", "e", "x", "p", "e", "c", "t">>

AuthSuccessReply ==
    ResponseAuthSuccess \o CRLF \o CRLF \o CRLF \o CRLF
        \o AuthSuccessWelcomeMessage \o CRLF \o CRLF

\* telnettest.AuthHandler
AuthHandler(request, password) ==
    IF request = password
    THEN [out |-> AuthSuccessReply, success |-> TRUE, brk |-> TRUE]
    ELSE [out |-> ResponseAuthIncorrectPassword \o CRLF,
          success |-> FALSE, brk |-> FALSE]

\* an authHandler without the case of the sentinel
authHandlerNoSentinel(request, password) ==
    IF request = password
    THEN [out |-> AuthSuccessReply, success |-> TRUE, brk |-> TRUE]
    ELSE [out |-> ResponseAuthIncorrectPassword \o CRLF,
          success |-> FALSE, brk |-> FALSE]

\* authHandler of the client's tests: the sentinel ends the loop in failure
authHandler(request, password) ==
    IF request = password
    THEN [out |-> AuthSuccessReply, success |-> TRUE, brk |-> TRUE]
    ELSE IF request = Sentinel
    THEN [out |-> <<"My spoon is too big">> \o CRLF \o CRLF,
          success |-> FALSE, brk |-> TRUE]
    ELSE [out |-> ResponseAuthIncorrectPassword \o CRLF,
          success |-> FALSE, brk |-> FALSE]

\* telnettest.EmptyHandler: writes, and does not flush
EmptyHandler(request) ==
    [out |-> UnknownCommand(request), flush |-> FALSE]

\* commandHandler of the client's tests
commandHandler(request) ==
    IF request \in {<<>>, <<"exit">>} THEN [out |-> <<>>, flush |-> TRUE]
    ELSE IF request = <<"help">>
    THEN [out |-> EchoLine(request) \o <<"lorem ipsum dolor sit amet">> \o CRLF,
          flush |-> TRUE]
    ELSE [out |-> UnknownCommand(request), flush |-> TRUE]

\* the command handler of ExampleServer: no case for the empty line
exampleHandler(request) ==
    IF request = <<"Hello, server">>
    THEN [out |-> EchoLine(request) \o <<"Hello, client">> \o CRLF, flush |-> TRUE]
    ELSE [out |-> UnknownCommand(request), flush |-> TRUE]

\* a HandlerFunc installed with SetCommandHandler that answers as the game
\* server does for a command without output: the echo line and nothing else
echoHandler(request) ==
    IF request = <<>> THEN [out |-> <<>>, flush |-> TRUE]
    ELSE [out |-> EchoLine(request), flush |-> TRUE]

\* the switch of MockServer.handle, followed by w.Flush()
MockHandle(request) ==
    IF request \in {<<>>, <<"exit">>} THEN [out |-> <<>>, flush |-> TRUE]
    ELSE IF request = <<"help">>
    THEN [out |-> EchoLine(request) \o <<"lorem ipsum dolor sit amet">> \o CRLF,
          flush |-> TRUE]
    ELSE [out |-> UnknownCommand(request), flush |-> TRUE]

\* s.authHandler(ctx) and s.commandHandler(ctx): the handler a server holds
RunAuthHandler(name, request, password) ==
    IF name = "authHandler" THEN authHandler(request, password)
    ELSE AuthHandler(request, password)

RunCommandHandler(name, request) ==
    CASE name = "EmptyHandler"   -> EmptyHandler(request)
      [] name = "commandHandler" -> commandHandler(request)
      [] name = "exampleHandler" -> exampleHandler(request)
      [] name = "echoHandler"    -> echoHandler(request)
      [] OTHER                   -> MockHandle(request)

----------------------------------------------------------------------------
(* Settings and options                                                    *)

\* DefaultDialTimeout, in seconds
DefaultDialTimeout == 5

\* the initial value of the package variable DefaultSettings
DefaultSettings ==
    [dialTimeout |-> DefaultDialTimeout, exitCommand |-> DefaultExitCommand,
     clearResponse |-> FALSE]

\* an Option is a function that assigns one field of a Settings
SetDialTimeout(timeout) == [field |-> "dialTimeout", value |-> timeout]
SetExitCommand(cmd) == [field |-> "exitCommand", value |-> cmd]
SetClearResponse(clear) == [field |-> "clearResponse", value |-> clear]

\* option(&settings)
Apply(s, option) == [s EXCEPT ![option.field] = option.value]

\* a faulty loop over the options, from the last to the first
RECURSIVE ApplyReversed(_, _)
ApplyReversed(s, opts) ==
    IF opts = <<>> THEN s
    ELSE Apply(ApplyReversed(s, Drop(opts, 1)), opts[1])

\* settings := DefaultSettings; for _, option := range options
RECURSIVE ApplyOptions(_, _)
ApplyOptions(s, opts) ==
    IF opts = <<>> THEN s
    ELSE ApplyOptions(Apply(s, opts[1]), Drop(opts, 1))

\* DefaultSettings after a Dial: the options were applied to a copy
DefaultsAfter(d, opts) == d

----------------------------------------------------------------------------
(* Bounds and inputs                                                       *)

\* public calls (Execute, Close) made on a Connection after Dial
MaxCalls == 2

\* the attempt limit of Server.auth and MockServer.auth
limit == 10

NoDelay   == "none"
SlowDelay == "above the window"

Long(n) == Fill(n, "x")
Wrong   == <<"w", "r", "o", "n", "g">>

\* The runs: a peer the repository sets up, and the passwords and commands
\* the caller may give it.  The peers are the telnettest Server of TestDial,
\* of TestConn_Execute, of ExampleServer, of TestNewServer/empty handler
\* (the zero Settings), one with a caller's own command handler, one whose
\* CommandResponseDelay is above the client's window, and the MockServer.
\* the options most callers give: none, or SetClearResponse(true)
BasicOptions == {<<>>, <<SetClearResponse(TRUE)>>}

\* several options, some for the same field
OrderedOptions ==
    { <<SetClearResponse(TRUE), SetClearResponse(FALSE)>>,
      <<SetClearResponse(FALSE), SetClearResponse(TRUE)>>,
      <<SetDialTimeout(1), SetClearResponse(TRUE), SetDialTimeout(2)>>,
      <<SetExitCommand(ForcedExitCommand), SetDialTimeout(1),
        SetExitCommand(<<"quit">>)>> }

Runs ==
    { [peer |-> [kind |-> "telnettest", password |-> Password,
                 authH |-> "authHandler", cmdH |-> "EmptyHandler", delay |-> NoDelay],
       passwords |-> {<<>>, Password, Sentinel, Wrong, Password \o <<"1">>,
                      Long(MaxCommandLen), Long(MaxCommandLen + 1)},
       commands |-> {<<>>, <<"help">>, Long(MaxCommandLen), Long(MaxCommandLen + 1)},
       options |-> BasicOptions],
      [peer |-> [kind |-> "telnettest", password |-> Password,
                 authH |-> "authHandler", cmdH |-> "commandHandler", delay |-> NoDelay],
       passwords |-> {Password, Sentinel, Wrong},
       commands |-> {<<>>, <<"help">>, <<"random">>, Long(MaxCommandLen + 1)},
       options |-> BasicOptions],
      [peer |-> [kind |-> "telnettest", password |-> Password,
                 authH |-> "AuthHandler", cmdH |-> "exampleHandler", delay |-> NoDelay],
       passwords |-> {Password, Sentinel, Wrong},
       commands |-> {<<"Hello, server">>, <<"Hi!">>},
       options |-> BasicOptions],
      [peer |-> [kind |-> "telnettest", password |-> <<>>,
                 authH |-> "AuthHandler", cmdH |-> "EmptyHandler", delay |-> NoDelay],
       passwords |-> {<<>>, Password, Wrong},
       commands |-> {<<"whatever">>},
       options |-> BasicOptions],
      [peer |-> [kind |-> "telnettest", password |-> Password,
                 authH |-> "authHandler", cmdH |-> "echoHandler", delay |-> NoDelay],
       passwords |-> {Password},
       commands |-> {<<"help">>, <<"say hi">>},
       options |-> BasicOptions \cup OrderedOptions],
      [peer |-> [kind |-> "telnettest", password |-> Password,
                 authH |-> "authHandler", cmdH |-> "commandHandler", delay |-> SlowDelay],
       passwords |-> {Password},
       commands |-> {<<>>, <<"help">>},
       options |-> BasicOptions],
      [peer |-> [kind |-> "mock", password |-> Password,
                 authH |-> "MockServer.auth", cmdH |-> "MockServer.handle",
                 delay |-> NoDelay],
       passwords |-> {<<>>, Password, Sentinel, Wrong, Password \o <<"1">>,
                      Long(MaxCommandLen + 1)},
       commands |-> {<<>>, <<"help">>, <<"exit">>, Long(MaxCommandLen)},
       options |-> BasicOptions] }

\* lines in the input reader of an interactive session
MaxLines == 2

\* calls of the server's Close
MaxCloses == 2

\* the goroutines that call Close of one Server at the same time
Closers == {1, 2}

Lines == {<<"help">>, ForcedExitCommand}
Scripts(n) == UNION {[1..k -> Lines] : k \in 0..n}

\* The interactive sessions: the telnettest Server of TestConn_Interactive,
\* the same with the forced exit as the exit command, the same with a
\* CommandResponseDelay above the receive wait period, and a telnettest
\* Server and a MockServer that their owner closes while the session may be
\* on, the two with a listener that may fail, and the two with a client
\* whose password is as long as ten wrong ones; the password, the input
\* lines and the exit command the caller may give, the calls of Close the
\* owner may make, and whether the listener may fail.
Sessions ==
    { [peer |-> [kind |-> "telnettest", password |-> Password,
                 authH |-> "authHandler", cmdH |-> "commandHandler", delay |-> NoDelay],
       passwords |-> {Password},
       scripts |-> Scripts(MaxLines) \cup {<<DefaultExitCommand, <<"help">>>>},
       exits |-> {DefaultExitCommand},
       closes |-> 0, fails |-> FALSE],
      [peer |-> [kind |-> "telnettest", password |-> Password,
                 authH |-> "authHandler", cmdH |-> "commandHandler", delay |-> NoDelay],
       passwords |-> {Password},
       scripts |-> {<<<<"help">>>>, <<ForcedExitCommand>>},
       exits |-> {ForcedExitCommand},
       closes |-> 0, fails |-> FALSE],
      [peer |-> [kind |-> "telnettest", password |-> Password,
                 authH |-> "authHandler", cmdH |-> "commandHandler", delay |-> SlowDelay],
       passwords |-> {Password},
       scripts |-> {<<<<"help">>, ForcedExitCommand>>},
       exits |-> {DefaultExitCommand},
       closes |-> 0, fails |-> FALSE],
      [peer |-> [kind |-> "telnettest", password |-> Password,
                 authH |-> "authHandler", cmdH |-> "commandHandler", delay |-> NoDelay],
       passwords |-> {<<>>, Password},
       scripts |-> {<<>>, <<ForcedExitCommand>>},
       exits |-> {DefaultExitCommand},
       closes |-> MaxCloses, fails |-> FALSE],
      [peer |-> [kind |-> "mock", password |-> Password,
                 authH |-> "MockServer.auth", cmdH |-> "MockServer.handle",
                 delay |-> NoDelay],
       passwords |-> {<<>>, Password},
       scripts |-> {<<>>, <<ForcedExitCommand>>},
       exits |-> {DefaultExitCommand},
       closes |-> MaxCloses, fails |-> FALSE],
      [peer |-> [kind |-> "telnettest", password |-> Password,
                 authH |-> "authHandler", cmdH |-> "commandHandler", delay |-> NoDelay],
       passwords |-> {Password},
       scripts |-> {<<>>},
       exits |-> {DefaultExitCommand},
       closes |-> 1, fails |-> TRUE],
      [peer |-> [kind |-> "mock", password |-> Password,
                 authH |-> "MockServer.auth", cmdH |-> "MockServer.handle",
                 delay |-> NoDelay],
       passwords |-> {Password},
       scripts |-> {<<>>},
       exits |-> {DefaultExitCommand},
       closes |-> 1, fails |-> TRUE],
      [peer |-> [kind |-> "telnettest", password |-> Password,
                 authH |-> "AuthHandler", cmdH |-> "EmptyHandler", delay |-> NoDelay],
       passwords |-> {Long(limit * Len(Password))},
       scripts |-> {<<>>},
       exits |-> {DefaultExitCommand},
       closes |-> 0, fails |-> FALSE],
      [peer |-> [kind |-> "mock", password |-> Password,
                 authH |-> "MockServer.auth", cmdH |-> "MockServer.handle",
                 delay |-> NoDelay],
       passwords |-> {Long(limit * Len(Password))},
       scripts |-> {<<>>},
       exits |-> {DefaultExitCommand},
       closes |-> 0, fails |-> FALSE] }

----------------------------------------------------------------------------
(* State                                                                   *)

VARIABLES
    peer,        \* the peer's configuration (Server.Settings and handlers)
    inputs,      \* the passwords and commands the caller may give
    settings,    \* Conn.settings
    pc,          \* where the caller's goroutine is
    op,          \* the public call in progress
    command,     \* the argument of the execute in progress
    response,    \* execute's local response
    buffer,      \* Conn.buffer or the output stream w, which the relay writes
    status,      \* Conn.status
    authErr,     \* Dial's err while it cleans up
    cliConn,     \* the client's end of the socket: none, open, closed
    relay,       \* processReadResponse: off, run, stopped
    panicked,    \* the process died of a runtime panic
    c2s,         \* bytes written by the client, not yet read by the peer
    s2c,         \* bytes written by the peer, not yet read by the relay
    srvPc,       \* where the peer's handle goroutine is
    srvConn,     \* the peer's end of the socket: none, open, closed
    attempt,     \* the loop counter of auth
    auth,        \* Context.Auth
    rbuf,        \* bytes buffered in the peer's bufio.Reader and Scanner
    wbuf,        \* bytes buffered in the peer's bufio.Writer
    line,        \* the scanned line a delayed handler will be given
    sleepWin,    \* the client's window during which the peer fell asleep
    winStarted,  \* wait windows the client has begun
    winEnded,    \* wait windows the client has finished
    wrote,       \* units the public call in progress has written to the socket
    last,        \* the public call that returned last, with its results
    ncalls,      \* how many public calls have returned
    own,         \* late reply units to the command of the latest execute
    owed,        \* late reply units to earlier commands, sent since the last window
    due,         \* late reply units to earlier commands, there when the window ended
    closeErr,    \* what the latest conn.Close() of the client returned
    pwLines,     \* how many times auth has written the password line
    script,      \* the lines of the input reader of an interactive session
    nread,       \* how many of them interactive has scanned
    forwarded,   \* the lines interactive has written to the socket
    rushed,      \* a receive wait period ended with the peer or the relay still moving
    transcript,  \* what the peer of an interactive session has written
    closed,      \* Server.closed
    quit,        \* the quit channel of the server
    listener,    \* the listener of the server
    ownerPc,     \* where the goroutine that owns the server is
    closes,      \* how many calls of the server's Close have returned
    servePc,     \* where the serve goroutine of the server is
    errors,      \* the errors channel of the MockServer
    connections, \* Server.connections: the connections being handled
    nclosed,     \* how many times the server has closed the accepted connection
    cmdLog,      \* what the command loop has given to the command handler
    authCalls,   \* how many times auth has run the auth handler on the connection
    authRequest, \* Context.request, as the auth handler saw it last
    defaults,    \* the package variable DefaultSettings
    options,     \* the options Dial or DialInteractive was given
    errorsClosed, \* the errors channel of the MockServer has been closed
    closerPc     \* where each of the goroutines that call Close of the Server at once is

cliVars == <<settings, pc, op, command, response, status, authErr, wrote, last, ncalls,
            closeErr, pwLines>>
intVars == <<script, nread, forwarded, rushed>>
optVars == <<defaults, options>>
ownVars == <<closed, quit, listener, ownerPc, closes, errorsClosed, closerPc>>
srvVars == <<srvPc, srvConn, attempt, auth, rbuf, wbuf, line, sleepWin, servePc, errors,
            connections, nclosed, cmdLog, authCalls, authRequest>>
vars == <<peer, inputs, settings, pc, op, command, response, buffer, status,
          authErr, cliConn, relay, panicked, c2s, s2c, srvPc, srvConn,
          attempt, auth, rbuf, wbuf, line, sleepWin, winStarted, winEnded,
          wrote, last, ncalls, own, owed, due, closeErr, pwLines, script,
          nread, forwarded, rushed, transcript, closed, quit, listener,
          ownerPc, closes, servePc, errors, connections, nclosed, cmdLog,
          authCalls, authRequest, defaults, options, errorsClosed, closerPc>>

\* a public call that has returned: its argument, what execute drained for
\* it (raw), its result and error, the units it wrote to the socket, the
\* call before it, and the late units that had been sent to the client
Call(o, cmd, resp, result, e, w) ==
    [op |-> o, arg |-> cmd, raw |-> resp, res |-> result, err |-> e, wrote |-> w,
     prev |-> [op |-> last.op, arg |-> last.arg], own |-> own, due |-> due]

NoCall ==
    [op |-> "none", arg |-> <<>>, raw |-> <<>>, res |-> <<>>, err |-> nil, wrote |-> 0,
     prev |-> [op |-> "none", arg |-> <<>>], own |-> <<>>, due |-> <<>>]

\* the command loop has given nothing to the command handler
NoCommand == [any |-> FALSE, exit |-> FALSE, late |-> FALSE, first |-> <<>>]

\* the state once the server has been started and before the client dials
Start(p, ins) ==
    /\ peer = p
    /\ inputs = ins
    /\ settings = DefaultSettings
    /\ pc = "start"
    /\ op = "none"
    /\ command = <<>>
    /\ response = <<>>
    /\ buffer = <<>>
    /\ status = <<>>
    /\ authErr = nil
    /\ cliConn = "none"
    /\ relay = "off"
    /\ panicked = FALSE
    /\ c2s = <<>>
    /\ s2c = <<>>
    /\ srvPc = "listen"
    /\ srvConn = "none"
    /\ attempt = 1
    /\ auth = [Success |-> FALSE, Break |-> FALSE]
    /\ rbuf = <<>>
    /\ wbuf = <<>>
    /\ line = <<>>
    /\ sleepWin = 0
    /\ winStarted = 0
    /\ winEnded = 0
    /\ wrote = 0
    /\ last = NoCall
    /\ ncalls = 0
    /\ own = <<>>
    /\ owed = <<>>
    /\ due = <<>>
    /\ closeErr = nil
    /\ pwLines = 0
    /\ script = <<>>
    /\ nread = 0
    /\ forwarded = <<>>
    /\ rushed = FALSE
    /\ transcript = <<>>
    /\ closed = FALSE
    /\ quit = "open"
    /\ listener = "open"
    /\ ownerPc = "run"
    /\ closes = 0
    /\ servePc = "accept"
    /\ errors = <<>>
    /\ connections = {}
    /\ nclosed = 0
    /\ cmdLog = NoCommand
    /\ authCalls = 0
    /\ authRequest = <<>>
    /\ defaults = DefaultSettings
    /\ options = <<>>
    /\ errorsClosed = FALSE
    /\ closerPc = [t \in Closers |-> "run"]

\* a program that uses Dial
Init ==
    \E r \in Runs :
        Start(r.peer, [passwords |-> r.passwords, commands |-> r.commands,
                       scripts |-> {}, exits |-> {}, closes |-> 0, fails |-> FALSE,
                       options |-> r.options])

\* a program that uses DialInteractive
InitInteractive ==
    \E r \in Sessions :
        Start(r.peer, [passwords |-> r.passwords, commands |-> {},
                       scripts |-> r.scripts, exits |-> r.exits, closes |-> r.closes,
                       fails |-> r.fails, options |-> {}])

----------------------------------------------------------------------------
(* The client: pure parts of execute, auth and Execute                     *)

\* a faulty execute, which compares the length with >= : the properties
\* of the length limit have to tell it from Validate
ValidateOffByOne(cmd) ==
    IF cmd = <<>> THEN ErrCommandEmpty
    ELSE IF Len(cmd) >= MaxCommandLen THEN ErrCommandTooLong
    ELSE nil

\* execute: the two checks before any I/O
Validate(cmd) ==
    IF cmd = <<>> THEN ErrCommandEmpty
    ELSE IF Len(cmd) > MaxCommandLen THEN ErrCommandTooLong
    ELSE nil

\* execute: what it makes of the drained bytes
Normalize(resp) == TrimSpace(RemoveNull(resp))

\* a faulty auth, which looks for the success marker first
AuthErrorSwapped(resp) ==
    IF ~Contains(resp, ResponseAuthSuccess) THEN ErrAuthUnexpectedMessage
    ELSE IF Contains(resp, ResponseAuthIncorrectPassword) THEN ErrAuthFailed
    ELSE nil

\* auth: the classification of the reply
AuthError(resp) ==
    IF Contains(resp, ResponseAuthIncorrectPassword) THEN ErrAuthFailed
    ELSE IF ~Contains(resp, ResponseAuthSuccess) THEN ErrAuthUnexpectedMessage
    ELSE nil

\* a faulty auth, which forgets the prompt in front of the success marker
AuthStatusNoPrompt(resp) ==
    TrimSpace(
        TrimSuffix(
            TrimPrefix(resp, ResponseAuthSuccess),
            CRLF \o CRLF \o ResponseWelcome))

\* auth: the status kept after a successful reply
AuthStatus(resp) ==
    TrimSpace(
        TrimSuffix(
            TrimPrefix(resp, ResponseEnterPassword \o CRLF \o ResponseAuthSuccess),
            CRLF \o CRLF \o ResponseWelcome))

\* Execute: the part of the response it returns
ClearResponse(resp, cmd, clear) ==
    IF clear
    THEN LET responseINFMessage == ResponseINFLayout(cmd, LocalAddr) \o CRLF
             tmp == Split(resp, responseINFMessage)
         IN  IF Len(tmp) > 1 THEN tmp[2] ELSE resp
    ELSE resp

\* a faulty Dial, which returns the error of auth without the cleanup
AfterAuthNoCleanup(err) == "idle"

\* a faulty Dial, which calls auth again when the password was rejected
AfterAuthRetry(err) ==
    IF err = ErrAuthFailed THEN "auth"
    ELSE IF err # nil THEN "close_write"
    ELSE "idle"

\* Dial: what follows auth, given its error
AfterAuth(err) == IF err # nil THEN "close_write" ELSE "idle"

\* a faulty write, which never notices a closed socket
WriteAlways == {TRUE}

\* c.write: the outcomes of conn.Write. It fails on a socket this side has
\* closed, and may fail or not on one the peer has closed.
WriteOutcomes ==
    IF cliConn # "open" THEN {FALSE}
    ELSE IF srvConn = "closed" THEN {TRUE, FALSE}
    ELSE {TRUE}

\* the bytes of a successful write reach the peer, unless it has gone
Deliver(bytes) == IF srvConn = "closed" THEN c2s ELSE c2s \o bytes

----------------------------------------------------------------------------
(* Time                                                                     *)

ClientEOF == cliConn = "closed"

\* the client is an interactive session
Interactive == op \in {"DialInteractive", "defer"}

SrvCanAccept ==
    srvPc = "listen" /\ cliConn # "none" /\ listener = "open" /\ servePc = "accept"
\* a faulty read of the password, which waits for bytes at the end of the
\* stream
SrvAuthWaits ==
    /\ srvPc = "auth"
    /\ \/ peer.kind = "telnettest" /\ Len(peer.password) = 0
       \/ rbuf # <<>>
       \/ c2s # <<>>

SrvCanAuth ==
    /\ srvPc = "auth"
    /\ \/ peer.kind = "telnettest" /\ Len(peer.password) = 0
       \/ rbuf # <<>>
       \/ c2s # <<>>
       \/ ClientEOF
SrvCanScan ==
    /\ srvPc = "scan"
    /\ (Contains(rbuf \o c2s, <<LF>>) \/ ClientEOF)
RelayCanRead == relay = "run" /\ cliConn = "open" /\ s2c # <<>>
\* a faulty relay, which leaves its loop when a read brings nothing
RelayStopsIdle == relay = "run" /\ s2c = <<>>

\* a faulty relay, whose read never returns once the socket is closed
RelayNeverStops == FALSE

RelayCanStop ==
    /\ relay = "run"
    /\ (cliConn = "closed" \/ (s2c = <<>> /\ srvConn = "closed"))

\* a window so short that it ends before the peer and the relay have moved
NothingUrgent == FALSE

\* something that takes no noticeable time can still move
Urgent == SrvCanAccept \/ SrvCanAuth \/ SrvCanScan \/ RelayCanRead \/ RelayCanStop

----------------------------------------------------------------------------
(* The client: Dial, auth, execute, Execute, Close                         *)

\* a Dial that leaves the relay out
NoRelay(r) == r

\* go client.processReadResponse(client.buffer)
StartRelay(r) == "run"

\* Dial up to the call of auth: the socket is open, the relay started
Dial(password, opts) ==
    /\ ~panicked
    /\ pc = "start"
    /\ options' = opts
    /\ settings' = ApplyOptions(defaults, opts)
    /\ defaults' = DefaultsAfter(defaults, opts)
    /\ cliConn' = "open"
    /\ relay' = StartRelay(relay)
    /\ op' = "Dial"
    /\ command' = password
    /\ pc' = "auth"
    /\ UNCHANGED <<peer, inputs, response, buffer, status, authErr, panicked, c2s, s2c,
                   winStarted, winEnded, wrote, last, ncalls, own, owed, due>>
    /\ UNCHANGED srvVars
    /\ UNCHANGED closeErr
    /\ UNCHANGED pwLines
    /\ UNCHANGED <<intVars, ownVars, transcript>>

\* the return of execute into auth (and Dial) or into Execute
Return(o, cmd, resp, err, w) ==
    IF o = "Dial"
    THEN LET e == IF err # nil THEN err ELSE AuthError(resp)
             st == IF e = nil THEN AuthStatus(resp) ELSE resp
         IN  /\ status' = st
             /\ authErr' = e
             /\ wrote' = w
             /\ pc' = AfterAuth(e)
             /\ last' = IF AfterAuth(e) = "idle"
                        THEN Call("Dial", cmd, resp, st, e, w)
                        ELSE last
             /\ ncalls' = IF AfterAuth(e) = "idle" THEN ncalls + 1 ELSE ncalls
    ELSE /\ last' = Call("Execute", cmd, resp,
                          IF err # nil THEN resp
                          ELSE ClearResponse(resp, cmd, settings.clearResponse),
                          err, w)
         /\ ncalls' = ncalls + 1
         /\ pc' = "idle"
         /\ wrote' = w
         /\ UNCHANGED <<status, authErr>>
    /\ UNCHANGED optVars

\* execute up to its sleep: the checks and the write
ExecuteBegin(o, cmd) ==
    IF Validate(cmd) # nil
    THEN /\ Return(o, cmd, <<>>, Validate(cmd), 0)
         /\ UNCHANGED <<c2s, winStarted, own, owed, pwLines>>
    ELSE \E ok \in WriteOutcomes :
           IF ok
           THEN /\ c2s' = Deliver(cmd \o CRLF)
                /\ wrote' = Len(cmd \o CRLF)
                /\ pwLines' = IF o = "Dial" THEN pwLines + 1 ELSE pwLines
                /\ winStarted' = winStarted + 1
                /\ pc' = "wait"
                /\ own' = <<>>
                /\ owed' = owed \o own
                /\ UNCHANGED <<status, authErr, last, ncalls>>
           ELSE /\ Return(o, cmd, <<>>, ErrWrite, 0)
                /\ UNCHANGED <<c2s, winStarted, own, owed, pwLines>>
    /\ UNCHANGED optVars

\* auth: c.execute(password)
Auth ==
    /\ ~panicked
    /\ pc = "auth"
    /\ ExecuteBegin("Dial", command)
    /\ UNCHANGED <<peer, inputs, settings, op, command, response, buffer, cliConn, relay,
                   panicked, s2c, winEnded, due>>
    /\ UNCHANGED srvVars
    /\ UNCHANGED closeErr
    /\ UNCHANGED <<intVars, ownVars, transcript>>
    /\ UNCHANGED optVars

\* a faulty execute, which empties the buffer before its checks
DrainedOnFailure(buf) == <<>>

\* execute: c.buffer when it returns an error, which it does before it
\* reads or resets the buffer
OnFailure(buf) == buf

\* Execute: c.execute(command)
Execute(cmd) ==
    /\ ~panicked
    /\ pc = "idle"
    /\ ncalls <= MaxCalls
    /\ op' = "Execute"
    /\ command' = cmd
    /\ ExecuteBegin("Execute", cmd)
    /\ buffer' = IF pc' = "idle" THEN OnFailure(buffer) ELSE buffer
    /\ UNCHANGED <<peer, inputs, settings, response, cliConn, relay,
                   panicked, s2c, winEnded, due>>
    /\ UNCHANGED srvVars
    /\ UNCHANGED closeErr
    /\ UNCHANGED <<intVars, ownVars, transcript>>
    /\ UNCHANGED optVars

\* execute: time.Sleep(ExecuteTickTimeout) is over
WindowEnd ==
    /\ ~panicked
    /\ pc = "wait"
    /\ ~Urgent
    /\ pc' = "drain"
    /\ winEnded' = winEnded + 1
    /\ due' = owed
    /\ owed' = <<>>
    /\ UNCHANGED <<peer, inputs, settings, op, command, response, buffer, status, authErr,
                   cliConn, relay, panicked, c2s, s2c, winStarted, wrote, last, ncalls,
                   own>>
    /\ UNCHANGED srvVars
    /\ UNCHANGED closeErr
    /\ UNCHANGED pwLines
    /\ UNCHANGED <<intVars, ownVars, transcript>>
    /\ UNCHANGED optVars

\* execute: response := c.buffer.String()
DrainRead ==
    /\ ~panicked
    /\ pc = "drain"
    /\ response' = buffer
    /\ pc' = "reset"
    /\ UNCHANGED <<peer, inputs, settings, op, command, buffer, status, authErr,
                   cliConn, relay, panicked, c2s, s2c, winStarted, winEnded, wrote,
                   last, ncalls, own, owed, due>>
    /\ UNCHANGED srvVars
    /\ UNCHANGED closeErr
    /\ UNCHANGED pwLines
    /\ UNCHANGED <<intVars, ownVars, transcript>>
    /\ UNCHANGED optVars

\* execute: *c.buffer = bytes.Buffer{}, and the rest of execute, which is
\* local.  The assignment is not synchronised with the relay's
\* writer.Write(p): a Write in progress on the next byte of the socket may
\* store its slice over the fresh buffer (the old bytes are back, with the
\* new one), or index the fresh nil slice at the old length (a panic).
DrainReset ==
    /\ ~panicked
    /\ pc = "reset"
    /\ UNCHANGED <<own, owed, due>>
    /\ \/ /\ buffer' = <<>>
          /\ Return(op, command, Normalize(response), nil, wrote)
          /\ UNCHANGED <<s2c, panicked>>
       \/ /\ RelayCanRead
          /\ buffer' = buffer \o <<Head(s2c)>>
          /\ s2c' = Tail(s2c)
          /\ Return(op, command, Normalize(response), nil, wrote)
          /\ UNCHANGED panicked
       \/ /\ RelayCanRead
          /\ buffer # <<>>
          /\ panicked' = TRUE
          /\ UNCHANGED <<buffer, s2c, status, authErr, wrote, pc, last, ncalls>>
    /\ UNCHANGED <<peer, inputs, settings, op, command, response, cliConn, relay, c2s,
                   winStarted, winEnded>>
    /\ UNCHANGED srvVars
    /\ UNCHANGED closeErr
    /\ UNCHANGED pwLines
    /\ UNCHANGED <<intVars, ownVars, transcript>>
    /\ UNCHANGED optVars

\* Close up to its sleep: the exit command is written, the error dropped.
\* Close is Dial's cleanup (close_write) or a public call of its own.
CloseWrite ==
    /\ ~panicked
    /\ pc \in {"close_write", "idle"}
    /\ pc = "idle" => ncalls <= MaxCalls
    /\ op' = IF pc = "idle" THEN "Close" ELSE op
    /\ \E ok \in WriteOutcomes :
          /\ c2s' = IF ok THEN Deliver(settings.exitCommand \o CRLF) ELSE c2s
          /\ wrote' = (IF pc = "idle" THEN 0 ELSE wrote)
                        + (IF ok THEN Len(settings.exitCommand \o CRLF) ELSE 0)
    /\ pc' = "close_sock"
    /\ UNCHANGED <<peer, inputs, settings, command, response, buffer, status, authErr,
                   cliConn, relay, panicked, s2c, winStarted, winEnded,
                   last, ncalls, own, owed, due>>
    /\ UNCHANGED srvVars
    /\ UNCHANGED closeErr
    /\ UNCHANGED pwLines
    /\ UNCHANGED <<intVars, ownVars, transcript>>
    /\ UNCHANGED optVars

\* conn.Close(): the error of a second close, or what close(2) returns;
\* the descriptor is released either way
CloseOutcomes == IF cliConn = "closed" THEN {ErrClose} ELSE {nil, ErrCloseIO}

\* a faulty Dial, which returns the error of the cleanup alone
DialErrCloseOnly(err, err2) == IF err2 # nil THEN err2 ELSE err

\* Dial: the error it returns after the cleanup
DialErr(err, err2) ==
    IF err2 # nil
    THEN ErrMultiErrorOccurred \o <<": ">> \o err2 \o <<". Previous error: ">> \o err
    ELSE err

\* a faulty Close, which drops the error of conn.Close()
CloseResultNil(err2) == nil

\* Close: return c.conn.Close()
CloseResult(err2) == err2

\* Close after its sleep: the socket is closed, Close returns, and Dial,
\* if this was its cleanup, returns too.  interactive returns what Close
\* returned, and the deferred Close of DialInteractive runs; after that
\* one DialInteractive returns.
CloseSocket ==
    /\ ~panicked
    /\ pc = "close_sock"
    /\ cliConn' = "closed"
    /\ rushed' = IF Interactive /\ cliConn = "open" THEN rushed \/ Urgent ELSE rushed
    /\ \E err2 \in CloseOutcomes :
          /\ closeErr' = err2
          /\ CASE op = "Dial" ->
                    /\ last' = Call("Dial", command, status, status,
                                     DialErr(authErr, CloseResult(err2)), wrote)
                    /\ ncalls' = ncalls + 1
                    /\ pc' = "done"
                    /\ UNCHANGED <<op, authErr>>
               [] op = "DialInteractive" ->
                    /\ authErr' = CloseResult(err2)
                    /\ op' = "defer"
                    /\ pc' = "close_write"
                    /\ UNCHANGED <<last, ncalls>>
               [] op = "defer" ->
                    /\ last' = Call("DialInteractive", command, <<>>, <<>>, authErr, wrote)
                    /\ ncalls' = ncalls + 1
                    /\ pc' = "done"
                    /\ UNCHANGED <<op, authErr>>
               [] OTHER ->
                    /\ last' = Call("Close", <<>>, <<>>, <<>>, CloseResult(err2), wrote)
                    /\ ncalls' = ncalls + 1
                    /\ pc' = "idle"
                    /\ UNCHANGED <<op, authErr>>
    /\ UNCHANGED <<peer, inputs, settings, command, response, buffer, status,
                   relay, panicked, c2s, s2c, winStarted, winEnded, wrote,
                   own, owed, due>>
    /\ UNCHANGED srvVars
    /\ UNCHANGED pwLines
    /\ UNCHANGED <<script, nread, forwarded, ownVars, transcript>>
    /\ UNCHANGED optVars

----------------------------------------------------------------------------
(* The client: DialInteractive and interactive                             *)

\* DialInteractive up to the call of interactive: the dial, the password
\* line if there is a password, the relay to the output stream (buffer).
\* A dial to a closed listener fails and DialInteractive returns.
DialInteractive(lines, password, exit) ==
    /\ ~panicked
    /\ pc = "start"
    /\ command' = password
    /\ script' = lines
    /\ options' = <<SetExitCommand(exit)>>
    /\ settings' = ApplyOptions(defaults, <<SetExitCommand(exit)>>)
    /\ defaults' = DefaultsAfter(defaults, <<SetExitCommand(exit)>>)
    /\ IF listener # "open"
       THEN /\ last' = Call("DialInteractive", password, <<>>, <<>>, ErrConnRefused, 0)
            /\ ncalls' = ncalls + 1
            /\ pc' = "done"
            /\ UNCHANGED <<op, cliConn, relay, c2s, wrote>>
       ELSE /\ op' = "DialInteractive"
            /\ cliConn' = "open"
            /\ relay' = "run"
            /\ c2s' = IF password # <<>> THEN c2s \o password \o CRLF ELSE c2s
            /\ wrote' = IF password # <<>> THEN Len(password \o CRLF) ELSE 0
            /\ pc' = "i_scan"
            /\ UNCHANGED <<last, ncalls>>
    /\ UNCHANGED <<peer, inputs, response, buffer, status, authErr, panicked, s2c,
                   winStarted, winEnded, own, owed, due, closeErr, pwLines,
                   nread, forwarded, rushed, transcript>>
    /\ UNCHANGED ownVars
    /\ UNCHANGED srvVars

\* a faulty interactive, which writes the input line as it is
ForwardRaw(text, exit) == text

\* interactive: the line that is written for an input line
Forward(text, exit) == IF text = ForcedExitCommand THEN exit ELSE text

\* a faulty interactive, which never leaves its loop on a line
LeavesNever(text, exit) == FALSE

\* interactive: whether the loop ends after a written line
Leaves(text, exit) == text = exit

\* one turn of the loop of interactive: a line is scanned, replaced if it
\* is the forced exit, and written; the loop ends on the exit command, at
\* the end of the input, or with the error of the write
InteractiveScan ==
    /\ ~panicked
    /\ pc = "i_scan"
    /\ IF nread = Len(script)
       THEN /\ pc' = "i_sleep"
            /\ UNCHANGED <<nread, forwarded, c2s, wrote, op, authErr>>
       ELSE LET text == Forward(script[nread + 1], settings.exitCommand)
            IN  /\ nread' = nread + 1
                /\ \E ok \in WriteOutcomes :
                      IF ok
                      THEN /\ c2s' = Deliver(text \o CRLF)
                           /\ wrote' = wrote + Len(text \o CRLF)
                           /\ forwarded' = Append(forwarded, text)
                           /\ pc' = IF Leaves(text, settings.exitCommand)
                                     THEN "i_sleep" ELSE "i_scan"
                           /\ UNCHANGED <<op, authErr>>
                      ELSE /\ authErr' = ErrWrite
                           /\ op' = "defer"
                           /\ pc' = "close_write"
                           /\ UNCHANGED <<forwarded, c2s, wrote>>
    /\ UNCHANGED <<peer, inputs, settings, command, response, buffer, status, cliConn,
                   relay, panicked, s2c, winStarted, winEnded, last, ncalls, own, owed,
                   due, closeErr, pwLines, script, rushed, transcript>>
    /\ UNCHANGED ownVars
    /\ UNCHANGED srvVars
    /\ UNCHANGED optVars

\* interactive: time.Sleep(ReceiveWaitPeriod) is over, Close is called
InteractiveSleepEnd ==
    /\ ~panicked
    /\ pc = "i_sleep"
    /\ rushed' = (rushed \/ Urgent)
    /\ pc' = "close_write"
    /\ UNCHANGED <<peer, inputs, settings, op, command, response, buffer, status, authErr,
                   cliConn, relay, panicked, c2s, s2c, winStarted, winEnded, wrote, last,
                   ncalls, own, owed, due, closeErr, pwLines, script, nread, forwarded,
                   transcript>>
    /\ UNCHANGED ownVars
    /\ UNCHANGED srvVars
    /\ UNCHANGED optVars

----------------------------------------------------------------------------
(* The relay: processReadResponse                                          *)

\* one turn of the loop: c.read(p) returned a byte, writer.Write(p)
RelayCopy ==
    /\ ~panicked
    /\ RelayCanRead
    /\ buffer' = buffer \o <<Head(s2c)>>
    /\ s2c' = Tail(s2c)
    /\ UNCHANGED <<peer, inputs, relay, panicked, c2s, cliConn, winStarted, winEnded,
                   own, owed, due>>
    /\ UNCHANGED cliVars
    /\ UNCHANGED srvVars
    /\ UNCHANGED <<intVars, ownVars, transcript>>
    /\ UNCHANGED optVars

\* c.read(p) returned an error: the loop breaks
RelayStop ==
    /\ ~panicked
    /\ RelayCanStop
    /\ relay' = "stopped"
    /\ UNCHANGED <<peer, inputs, buffer, panicked, c2s, s2c, cliConn, winStarted, winEnded,
                   own, owed, due>>
    /\ UNCHANGED cliVars
    /\ UNCHANGED srvVars
    /\ UNCHANGED <<intVars, ownVars, transcript>>
    /\ UNCHANGED optVars

----------------------------------------------------------------------------
(* The peer: handle, auth and the command loop of telnettest.Server and    *)
(* MockServer                                                              *)

\* a faulty reportError, which queues whatever the channel holds
ReportAlways(queue, err) == IF err = nil THEN queue ELSE Append(queue, err)

\* the capacity of the errors channel
ErrorsCap == 10

\* reportError: nil is not reported; the error is queued if the channel
\* has room and dropped if it has none
ReportError(queue, err) ==
    IF err = nil THEN queue
    ELSE IF Len(queue) < ErrorsCap THEN Append(queue, err)
    ELSE queue

\* the errors a MockServer reports
ErrServe      == <<"serve error">>
ErrReadLine   == <<"handle read request error">>
ErrCloseConn  == <<"close conn error">>

\* what the peer's writes put on the wire: nothing once the client is gone
Wire(bytes) == IF cliConn = "closed" THEN s2c ELSE s2c \o bytes

\* a write of the peer to its socket, flushed
Send(bytes) ==
    /\ s2c' = Wire(bytes)
    /\ transcript' = IF Interactive THEN transcript \o bytes ELSE transcript

\* ctx.reader.Read(p) with len(p) = n: the bytes it returns and what stays
\* buffered.  An empty p returns at once; buffered bytes are returned without
\* a read of the socket; otherwise one read of the socket fills the buffer;
\* at end of stream nothing is read.
ReaderRead(n) ==
    LET avail == IF rbuf # <<>> THEN rbuf ELSE c2s
        k     == IF Len(avail) < n THEN Len(avail) ELSE n
    IN  [got  |-> Take(avail, k),
         rest |-> IF n = 0 THEN rbuf ELSE Drop(avail, k),
         sock |-> IF n = 0 \/ rbuf # <<>> THEN c2s ELSE <<>>]

\* string(p): the bytes read, in a zeroed buffer of n bytes
Padded(got, n) == got \o Fill(n - Len(got), NUL)

\* the length of the buffer auth reads the password into
PasswordLen == Len(peer.password)

\* the last value of attempt for which the loop body runs
LastAttempt == IF peer.kind = "mock" THEN limit ELSE limit - 1

\* one pass of the loop of MockServer.auth on a text: what it writes,
\* whether auth returns, and with what
MockAuth(request, n) ==
    IF request = Password
    THEN [out |-> AuthSuccessReply, success |-> TRUE, brk |-> TRUE]
    ELSE IF request = Sentinel
    THEN [out |-> <<"My spoon is too big">> \o CRLF \o CRLF,
          success |-> FALSE, brk |-> TRUE]
    ELSE IF n = limit
    THEN [out |-> ResponseAuthTooManyFails \o CRLF, success |-> FALSE, brk |-> TRUE]
    ELSE [out |-> ResponseAuthIncorrectPassword \o CRLF,
          success |-> FALSE, brk |-> FALSE]

\* what Server.auth writes once its loop has run out
TooManyFails(n) ==
    IF peer.kind = "telnettest" /\ n >= LastAttempt
    THEN ResponseAuthTooManyFails \o CRLF
    ELSE <<>>

\* the connection the server accepts
Conn == "conn"

\* a faulty closeConn, which leaves the connection in s.connections
CloseConnKeeps ==
    /\ srvConn' = "closed"
    /\ nclosed' = nclosed + 1
    /\ UNCHANGED connections

\* closeConn and closeConnection, deferred by handle: the connection is
\* closed and removed from s.connections
CloseConn ==
    /\ srvConn' = "closed"
    /\ connections' = connections \ {Conn}
    /\ nclosed' = nclosed + 1

\* handle up to the first read of auth: the connection is accepted and
\* registered, the prompt written and flushed
SrvAccept ==
    /\ ~panicked
    /\ SrvCanAccept
    /\ srvConn' = "open"
    /\ connections' = connections \cup {Conn}
    /\ srvPc' = "auth"
    /\ attempt' = 1
    /\ UNCHANGED nclosed
    /\ Send(ResponseEnterPassword \o CRLF)
    /\ UNCHANGED <<peer, inputs, buffer, cliConn, relay, panicked, c2s, auth, rbuf, wbuf,
                   line, sleepWin, winStarted, winEnded, own, owed, due>>
    /\ UNCHANGED cliVars
    /\ UNCHANGED <<intVars, ownVars>>
    /\ UNCHANGED <<servePc, errors>>
    /\ UNCHANGED <<cmdLog, authCalls, authRequest>>
    /\ UNCHANGED optVars

\* a faulty handle, which goes on whatever auth returns
ProceedsAlways(ok) == TRUE

\* handle: if !s.auth(ctx) { return }
Proceeds(ok) == ok

\* a faulty auth, whose loop does not look at ctx.Auth.Break
LoopNeverEnds(res) == FALSE

\* auth: if ctx.Auth.Break, the loop ends
LoopEnds(res) == res.Break

\* auth: return ctx.Auth.Success
AuthOutcome(res) == res.Success

\* one pass of the loop of auth, from its read to the next read or to the
\* return of auth; a failed auth ends handle, which closes the connection
SrvAuth ==
    /\ ~panicked
    /\ SrvCanAuth
    /\ LET rd   == ReaderRead(PasswordLen)
           text == Padded(rd.got, PasswordLen)
           h    == IF peer.kind = "mock" THEN MockAuth(text, attempt)
                   ELSE RunAuthHandler(peer.authH, text, peer.password)
           res  == [Success |-> h.success, Break |-> h.brk]
           over == ~LoopEnds(res) /\ attempt >= LastAttempt
           done == LoopEnds(res) \/ over
           ok   == LoopEnds(res) /\ AuthOutcome(res)
       IN  /\ rbuf' = rd.rest
           /\ c2s' = rd.sock
           /\ authRequest' = text
           /\ authCalls' = authCalls + 1
           /\ auth' = res
           /\ Send(h.out \o TooManyFails(IF LoopEnds(res) THEN 0 ELSE attempt))
           /\ attempt' = IF LoopEnds(res) THEN attempt ELSE attempt + 1
           /\ srvPc' = IF ~done THEN "auth"
                       ELSE IF Proceeds(ok) THEN "scan"
                       ELSE "closed"
           /\ IF done /\ ~Proceeds(ok)
              THEN CloseConn
              ELSE UNCHANGED <<srvConn, connections, nclosed>>
    /\ UNCHANGED <<peer, inputs, buffer, cliConn, relay, panicked, wbuf, line, sleepWin,
                   winStarted, winEnded, own, owed, due>>
    /\ UNCHANGED cliVars
    /\ UNCHANGED <<intVars, ownVars>>
    /\ UNCHANGED <<servePc, errors>>
    /\ UNCHANGED cmdLog
    /\ UNCHANGED optVars

\* a faulty scanner, which passes over a line terminator at the head of
\* the stream
ScanSkipsEmpty(stream) ==
    LET t   == IF Len(stream) >= 2 /\ Take(stream, 2) = CRLF THEN Drop(stream, 2)
               ELSE stream
        i   == Index(t, <<LF>>)
        raw == IF i = 0 THEN t ELSE Take(t, i - 1)
    IN  [token |-> IF raw # <<>> /\ raw[Len(raw)] = CR
                   THEN Take(raw, Len(raw) - 1) ELSE raw,
         rest  |-> IF i = 0 THEN <<>> ELSE Drop(t, i),
         more  |-> i # 0 \/ t # <<>>]

\* scanner.Scan() on everything that has arrived: the next line without
\* its terminator, or at end of stream the unterminated rest
ScanLine(stream) ==
    LET i   == Index(stream, <<LF>>)
        raw == IF i = 0 THEN stream ELSE Take(stream, i - 1)
    IN  [token |-> IF raw # <<>> /\ raw[Len(raw)] = CR
                   THEN Take(raw, Len(raw) - 1) ELSE raw,
         rest  |-> IF i = 0 THEN <<>> ELSE Drop(stream, i),
         more  |-> i # 0 \/ stream # <<>>]

\* the command handler is given a line: whether the exit command has been
\* among the lines, and whether a line came after it
Logged(log, text) ==
    [any   |-> TRUE,
     exit  |-> log.exit \/ text = DefaultExitCommand,
     late  |-> log.late \/ log.exit,
     first |-> IF log.any THEN log.first ELSE text]

\* the command handler runs on a request; its writes, flushed or not
Handle(text) ==
    LET h == RunCommandHandler(peer.cmdH, text)
    IN  /\ Send(IF h.flush THEN wbuf \o h.out ELSE <<>>)
        /\ wbuf' = IF h.flush THEN <<>> ELSE wbuf \o h.out
        /\ cmdLog' = Logged(cmdLog, text)

\* the client has closed its socket with bytes of the peer unread: its
\* system resets the connection instead of ending the stream
Reset == cliConn = "closed" /\ s2c # <<>>

\* how the read of scanner.Scan() ends once the client has closed and all
\* it sent has been scanned: with the end of the stream, or with the error
\* of a connection that was reset
ReadOutcomes == IF Reset THEN {"eof", "reset"} ELSE {"eof"}

\* a faulty handle, which takes the end of the stream for a failure
FatalAlways(outcome) == TRUE

\* handle: scanner.Err() is an error and not io.EOF
Fatal(outcome) == outcome # "eof"

\* one turn of the command loop: a line is scanned and, with no delay
\* configured, handled; when the read ends handle returns and the connection
\* is closed (MockServer flushes its writer first); a read that ends with
\* an error makes a Server panic and a MockServer report it
SrvScan ==
    /\ ~panicked
    /\ SrvCanScan
    /\ LET sc == ScanLine(rbuf \o c2s)
       IN  /\ rbuf' = sc.rest
           /\ c2s' = <<>>
           /\ IF ~sc.more
              THEN /\ CloseConn
                   /\ Send(IF peer.kind = "mock" THEN wbuf ELSE <<>>)
                   /\ wbuf' = <<>>
                   /\ \E outcome \in ReadOutcomes :
                         IF Fatal(outcome) /\ peer.kind = "telnettest"
                         THEN /\ srvPc' = "panic"
                              /\ panicked' = TRUE
                              /\ UNCHANGED errors
                         ELSE /\ srvPc' = "closed"
                              /\ errors' = IF Fatal(outcome)
                                           THEN ReportError(errors, ErrReadLine)
                                           ELSE errors
                              /\ UNCHANGED panicked
                   /\ UNCHANGED <<line, sleepWin, cmdLog>>
              ELSE IF peer.delay = NoDelay
              THEN /\ Handle(sc.token)
                   /\ UNCHANGED <<srvPc, srvConn, line, sleepWin, connections, nclosed,
                                  panicked, errors>>
              ELSE /\ srvPc' = "sleep"
                   /\ line' = sc.token
                   /\ sleepWin' = winStarted
                   /\ UNCHANGED <<srvConn, s2c, wbuf, transcript, connections, nclosed,
                                  cmdLog, panicked, errors>>
    /\ UNCHANGED <<peer, inputs, buffer, cliConn, relay, attempt, auth,
                   winStarted, winEnded, own, owed, due>>
    /\ UNCHANGED cliVars
    /\ UNCHANGED <<intVars, ownVars>>
    /\ UNCHANGED servePc
    /\ UNCHANGED <<authCalls, authRequest>>
    /\ UNCHANGED optVars

\* time.Sleep(CommandResponseDelay) is over: longer than the window in
\* which it began, it ends after that window; the handler runs
SrvWake ==
    /\ ~panicked
    /\ srvPc = "sleep"
    /\ winEnded >= sleepWin
    /\ Handle(line)
    /\ LET sent == Drop(s2c', Len(s2c))
           mine == rbuf = <<>> /\ c2s = <<>> /\ line = command
       IN  /\ own' = IF mine THEN own \o sent ELSE own
           /\ owed' = IF mine THEN owed ELSE owed \o sent
    /\ srvPc' = "scan"
    /\ UNCHANGED <<peer, inputs, buffer, cliConn, relay, panicked, c2s, srvConn, attempt,
                   auth, rbuf, line, sleepWin, winStarted, winEnded, due>>
    /\ UNCHANGED cliVars
    /\ UNCHANGED <<intVars, ownVars>>
    /\ UNCHANGED <<servePc, errors>>
    /\ UNCHANGED <<connections, nclosed>>
    /\ UNCHANGED <<authCalls, authRequest>>
    /\ UNCHANGED optVars

----------------------------------------------------------------------------

Next ==
    \/ \E p \in inputs.passwords, opts \in inputs.options : Dial(p, opts)
    \/ Auth
    \/ \E cmd \in inputs.commands : Execute(cmd)
    \/ WindowEnd
    \/ DrainRead
    \/ DrainReset
    \/ CloseWrite
    \/ CloseSocket
    \/ RelayCopy
    \/ RelayStop
    \/ SrvAccept
    \/ SrvAuth
    \/ SrvScan
    \/ SrvWake

Spec == Init /\ [][Next]_vars

\* The runs of the servers with no delay, with the passwords and commands
\* of a few units and no option
InitLive ==
    \E r \in {x \in Runs : x.peer.delay = NoDelay} :
        Start(r.peer, [passwords |-> {p \in r.passwords : Len(p) <= Len(Password) + 1},
                       commands |-> {c \in r.commands : Len(c) <= 1},
                       scripts |-> {}, exits |-> {}, closes |-> 0, fails |-> FALSE,
                       options |-> {<<>>}])

\* the steps of Next but that of a peer with a delay
NextLive ==
    \/ \E p \in inputs.passwords, opts \in inputs.options : Dial(p, opts)
    \/ Auth
    \/ \E cmd \in inputs.commands : Execute(cmd)
    \/ WindowEnd
    \/ DrainRead
    \/ DrainReset
    \/ CloseWrite
    \/ CloseSocket
    \/ RelayCopy
    \/ RelayStop
    \/ SrvAccept
    \/ SrvAuth
    \/ SrvScan

\* The relay and the goroutines of the peer take every step of the code
\* they can take: the scheduler runs each goroutine that is ready.  Nothing
\* makes the caller call.
Live ==
    /\ WF_vars(RelayCopy)
    /\ WF_vars(RelayStop)
    /\ WF_vars(SrvAccept)
    /\ WF_vars(SrvAuth)
    /\ WF_vars(SrvScan)

SpecLive == InitLive /\ [][NextLive]_vars /\ Live

----------------------------------------------------------------------------
(* The owner of the server: Close of telnettest.Server and of MockServer   *)

\* a faulty Server.Close, which does not look at s.closed
NeverClosed == FALSE

\* Server.Close: if s.closed
AlreadyClosed == closed

\* isRunning: nothing can be received from s.quit
IsRunning == quit = "open"

\* a faulty Close, which closes the listener before it closes s.quit
ListenerFirst == <<"listener", "quit">>

\* what Close shuts down, in the order of its statements
CloseOrder == <<"quit", "listener">>

\* the listener fails while the server runs (Server.Listener is exported:
\* its owner can close it; the system can fail it)
ListenerFail ==
    /\ ~panicked
    /\ inputs.fails
    /\ listener = "open"
    /\ ownerPc = "run"
    /\ IsRunning
    /\ listener' = "failed"
    /\ UNCHANGED <<closed, quit, ownerPc, closes>>
    /\ UNCHANGED <<peer, inputs, buffer, cliConn, relay, panicked, c2s, s2c, winStarted,
                   winEnded, own, owed, due, transcript>>
    /\ UNCHANGED cliVars
    /\ UNCHANGED intVars
    /\ UNCHANGED srvVars
    /\ UNCHANGED optVars
    /\ UNCHANGED errorsClosed
    /\ UNCHANGED closerPc

\* serve, once Accept has returned an error: a server that is running
\* surfaces it, a Server by a panic and a MockServer by a report, and a
\* server that has been shut down returns in silence
ServeReturn ==
    /\ ~panicked
    /\ servePc = "accept"
    /\ listener # "open"
    /\ IF IsRunning /\ peer.kind = "telnettest"
       THEN /\ panicked' = TRUE
            /\ servePc' = "panic"
            /\ UNCHANGED errors
       ELSE /\ servePc' = "done"
            /\ errors' = IF IsRunning THEN ReportError(errors, ErrServe) ELSE errors
            /\ UNCHANGED panicked
    /\ UNCHANGED <<srvPc, srvConn, attempt, auth, rbuf, wbuf, line, sleepWin>>
    /\ UNCHANGED <<peer, inputs, buffer, cliConn, relay, c2s, s2c, winStarted, winEnded,
                   own, owed, due, transcript>>
    /\ UNCHANGED cliVars
    /\ UNCHANGED intVars
    /\ UNCHANGED ownVars
    /\ UNCHANGED <<connections, nclosed>>
    /\ UNCHANGED <<cmdLog, authCalls, authRequest>>
    /\ UNCHANGED optVars

\* a faulty Close, which does not wait for the goroutines of the server
WaitSkipped == TRUE

\* s.wg.Wait() can return: serve has returned and no handle goroutine is
\* running
WaitOver == servePc = "done" /\ srvPc \in {"listen", "closed"}

\* one of the two things Close shuts down; the Close of a listener that
\* has failed changes nothing
Shut(what) ==
    /\ quit' = IF what = "quit" THEN "closed" ELSE quit
    /\ listener' = IF what = "listener" /\ listener = "open" THEN "closed" ELSE listener

\* Close up to its second statement: a closed telnettest Server returns at
\* once; close(s.quit) on a closed channel is a panic; otherwise the first
\* of the two is shut down
ServerClose ==
    /\ ~panicked
    /\ ownerPc = "run"
    /\ closes < inputs.closes
    /\ IF peer.kind = "telnettest" /\ AlreadyClosed
       THEN /\ closes' = closes + 1
            /\ UNCHANGED <<closed, quit, listener, ownerPc, panicked>>
       ELSE IF quit = "closed"
       THEN /\ panicked' = TRUE
            /\ ownerPc' = "panic"
            /\ UNCHANGED <<closed, quit, listener, closes>>
       ELSE /\ closed' = (peer.kind = "telnettest")
            /\ Shut(CloseOrder[1])
            /\ ownerPc' = "shut"
            /\ UNCHANGED <<closes, panicked>>
    /\ UNCHANGED <<peer, inputs, buffer, cliConn, relay, c2s, s2c, winStarted, winEnded,
                   own, owed, due, transcript>>
    /\ UNCHANGED cliVars
    /\ UNCHANGED intVars
    /\ UNCHANGED srvVars
    /\ UNCHANGED optVars
    /\ UNCHANGED errorsClosed
    /\ UNCHANGED closerPc

\* Close from its second statement to s.wg.Wait()
ServerCloseListener ==
    /\ ~panicked
    /\ ownerPc = "shut"
    /\ Shut(CloseOrder[2])
    /\ ownerPc' = "wait"
    /\ UNCHANGED <<closed, closes>>
    /\ UNCHANGED <<peer, inputs, buffer, cliConn, relay, panicked, c2s, s2c, winStarted,
                   winEnded, own, owed, due, transcript>>
    /\ UNCHANGED cliVars
    /\ UNCHANGED intVars
    /\ UNCHANGED srvVars
    /\ UNCHANGED optVars
    /\ UNCHANGED errorsClosed
    /\ UNCHANGED closerPc

\* Close after s.wg.Wait(): the sweep of s.connections and the return.
\* The sweep of a Server holds s.mu and calls closeConn, which waits for
\* s.mu: with a connection left it never ends.  The sweep of a MockServer
\* closes what is left and removes nothing; its Close ends with
\* close(s.errors).
ServerCloseReturn ==
    /\ ~panicked
    /\ ownerPc = "wait"
    /\ WaitOver
    /\ peer.kind = "telnettest" => connections = {}
    /\ srvConn' = IF connections # {} THEN "closed" ELSE srvConn
    /\ nclosed' = nclosed + Cardinality(connections)
    /\ errorsClosed' = (peer.kind = "mock")
    /\ ownerPc' = "run"
    /\ closes' = closes + 1
    /\ UNCHANGED <<closed, quit, listener>>
    /\ UNCHANGED <<srvPc, attempt, auth, rbuf, wbuf, line, sleepWin, servePc, errors,
                   connections>>
    /\ UNCHANGED <<peer, inputs, buffer, cliConn, relay, panicked, c2s, s2c, winStarted,
                   winEnded, own, owed, due, transcript>>
    /\ UNCHANGED cliVars
    /\ UNCHANGED intVars
    /\ UNCHANGED <<cmdLog, authCalls, authRequest>>
    /\ UNCHANGED optVars
    /\ UNCHANGED closerPc

----------------------------------------------------------------------------

NextInteractive ==
    \/ \E lines \in inputs.scripts, p \in inputs.passwords, exit \in inputs.exits :
          DialInteractive(lines, p, exit)
    \/ InteractiveScan
    \/ InteractiveSleepEnd
    \/ CloseWrite
    \/ CloseSocket
    \/ RelayCopy
    \/ RelayStop
    \/ SrvAccept
    \/ SrvAuth
    \/ SrvScan
    \/ SrvWake
    \/ ListenerFail
    \/ ServeReturn
    \/ ServerClose
    \/ ServerCloseListener
    \/ ServerCloseReturn

\* Every goroutine that can take a step of the code takes it.  Nothing
\* makes the caller dial, the input reader deliver a line or the owner
\* call Close.
Fairness ==
    /\ WF_vars(InteractiveSleepEnd)
    /\ WF_vars(CloseWrite)
    /\ WF_vars(CloseSocket)
    /\ WF_vars(RelayCopy)
    /\ WF_vars(RelayStop)
    /\ WF_vars(SrvAccept)
    /\ WF_vars(SrvAuth)
    /\ WF_vars(SrvScan)
    /\ WF_vars(SrvWake)
    /\ WF_vars(ServeReturn)
    /\ WF_vars(ServerCloseListener)
    /\ WF_vars(ServerCloseReturn)

SpecInteractive == InitInteractive /\ [][NextInteractive]_vars /\ Fairness

----------------------------------------------------------------------------
(* The goroutines of a MockServer that report errors, with nothing that    *)
(* receives from the channel                                               *)

\* a faulty reportError, which sends without a default case and so waits
\* while the channel is full
CanReportIfRoom(queue) == Len(queue) < ErrorsCap

\* reportError can always go on: its select has a default case
CanReport(queue) == TRUE

\* what the goroutines of a MockServer pass to reportError
Reported == {nil, ErrServe, ErrReadLine, ErrCloseConn}

\* one call of reportError, from wherever it is made
Report(err) ==
    /\ CanReport(errors)
    /\ errors' = ReportError(errors, err)
    /\ UNCHANGED <<srvPc, srvConn, attempt, auth, rbuf, wbuf, line, sleepWin, servePc,
                   connections, nclosed, cmdLog, authCalls, authRequest>>
    /\ UNCHANGED <<peer, inputs, buffer, cliConn, relay, panicked, c2s, s2c, winStarted,
                   winEnded, own, owed, due, transcript>>
    /\ UNCHANGED cliVars
    /\ UNCHANGED intVars
    /\ UNCHANGED ownVars
    /\ UNCHANGED optVars

\* a MockServer that has been started
InitReport ==
    \E r \in {x \in Runs : x.peer.kind = "mock"} :
        Start(r.peer, [passwords |-> {}, commands |-> {}, scripts |-> {}, exits |-> {},
                       closes |-> 0, fails |-> FALSE, options |-> {}])

NextReport == \E err \in Reported : Report(err)

SpecReport == InitReport /\ [][NextReport]_vars

----------------------------------------------------------------------------
(* Two goroutines call Close of one telnettest Server, each once, while no  *)
(* client is connected.  Nothing orders the statements of one with those   *)
(* of the other but the channel, the listener, s.wg and s.mu.              *)

\* Close: what `if s.closed` reads.  s.closed is written by the other
\* goroutine without synchronisation: the read sees the write or misses it
ClosedSeen == IF closed THEN {TRUE, FALSE} ELSE {FALSE}

\* what Close leaves alone
CloserFrame ==
    /\ UNCHANGED <<peer, inputs, buffer, cliConn, relay, c2s, s2c, winStarted, winEnded,
                   own, owed, due, transcript>>
    /\ UNCHANGED cliVars
    /\ UNCHANGED intVars
    /\ UNCHANGED srvVars
    /\ UNCHANGED optVars

\* Close: if s.closed { return }
CloseCheck(t) ==
    /\ ~panicked
    /\ closerPc[t] = "run"
    /\ \E seen \in ClosedSeen :
          closerPc' = [closerPc EXCEPT ![t] = IF seen THEN "done" ELSE "mark"]
    /\ closes' = IF closerPc'[t] = "done" THEN closes + 1 ELSE closes
    /\ UNCHANGED <<closed, quit, listener, ownerPc, errorsClosed, panicked>>
    /\ CloserFrame

\* Close: s.closed = true
CloseMark(t) ==
    /\ ~panicked
    /\ closerPc[t] = "mark"
    /\ closed' = TRUE
    /\ closerPc' = [closerPc EXCEPT ![t] = "quit"]
    /\ UNCHANGED <<quit, listener, ownerPc, closes, errorsClosed, panicked>>
    /\ CloserFrame

\* Close: close(s.quit), a panic on a channel that is closed
CloseQuit(t) ==
    /\ ~panicked
    /\ closerPc[t] = "quit"
    /\ IF quit = "closed"
       THEN /\ panicked' = TRUE
            /\ closerPc' = [closerPc EXCEPT ![t] = "panic"]
            /\ UNCHANGED quit
       ELSE /\ quit' = "closed"
            /\ closerPc' = [closerPc EXCEPT ![t] = "listener"]
            /\ UNCHANGED panicked
    /\ UNCHANGED <<closed, listener, ownerPc, closes, errorsClosed>>
    /\ CloserFrame

\* Close: s.Listener.Close(), its error dropped
CloseListener(t) ==
    /\ ~panicked
    /\ closerPc[t] = "listener"
    /\ listener' = IF listener = "open" THEN "closed" ELSE listener
    /\ closerPc' = [closerPc EXCEPT ![t] = "wait"]
    /\ UNCHANGED <<closed, quit, ownerPc, closes, errorsClosed, panicked>>
    /\ CloserFrame

\* Close: s.wg.Wait(), the sweep of the empty s.connections, and the return
CloseReturn(t) ==
    /\ ~panicked
    /\ closerPc[t] = "wait"
    /\ WaitOver
    /\ connections = {}
    /\ closerPc' = [closerPc EXCEPT ![t] = "done"]
    /\ closes' = closes + 1
    /\ UNCHANGED <<closed, quit, listener, ownerPc, errorsClosed, panicked>>
    /\ CloserFrame

\* a telnettest Server that has been started
InitClosers ==
    \E r \in {x \in Runs : x.peer.kind = "telnettest"} :
        Start(r.peer, [passwords |-> {}, commands |-> {}, scripts |-> {}, exits |-> {},
                       closes |-> 0, fails |-> TRUE, options |-> {}])

NextClosers ==
    \/ \E t \in Closers : CloseCheck(t)
    \/ \E t \in Closers : CloseMark(t)
    \/ \E t \in Closers : CloseQuit(t)
    \/ \E t \in Closers : CloseListener(t)
    \/ \E t \in Closers : CloseReturn(t)
    \/ ListenerFail
    \/ ServeReturn

SpecClosers == InitClosers /\ [][NextClosers]_vars

----------------------------------------------------------------------------
(* Properties                                                              *)

\* the sentinel passwords the peer's authentication knows
Sentinels == IF peer.authH = "AuthHandler" THEN {} ELSE {Sentinel}

\* the text the first read of the peer's auth makes of what Dial writes
Seen(password) ==
    LET sent == password \o CRLF
        k    == IF Len(sent) < PasswordLen THEN Len(sent) ELSE PasswordLen
    IN  Padded(Take(sent, k), PasswordLen)

\* what the peer sends in reply to a line
Reply(request) ==
    LET h == RunCommandHandler(peer.cmdH, request)
    IN  IF h.flush THEN h.out ELSE <<>>

\* what the peer sends, within the window of Dial, in reply to the empty
\* line that the terminator of the password leaves behind
LeftoverReply == IF peer.delay = NoDelay THEN Reply(<<>>) ELSE <<>>

Rejections == {ErrCommandEmpty, ErrCommandTooLong}

\* the call that returned last has failed with the error e: it returned e,
\* or, a Dial whose cleanup could not close the socket, the combined error
\* that carries e
FailedWith(e) ==
    IF last.op = "Dial" THEN last.err = DialErr(e, closeErr) ELSE last.err = e

C2_Original ==
    (last.op = "Dial" /\ last.arg # peer.password /\ last.arg \notin Sentinels)
        => FailedWith(ErrAuthFailed)

\* C2, amended: Dial with a password that passes the checks of execute and
\* of which the peer's first read (the first len(configured password) bytes
\* of the password and its terminator, padded with NUL) is neither the
\* configured password nor the sentinel returns ErrAuthFailed.
C2_AuthFailed ==
    (/\ last.op = "Dial"
     /\ Validate(last.arg) = nil
     /\ Seen(last.arg) # peer.password
     /\ Seen(last.arg) \notin Sentinels)
        => FailedWith(ErrAuthFailed)

C2_Witness ==
    /\ last.op = "Dial"
    /\ Len(last.arg) = MaxCommandLen
    /\ Seen(last.arg) # peer.password
    /\ Seen(last.arg) \notin Sentinels
    /\ FailedWith(ErrAuthFailed)
    /\ pc = "done"

\* C3: Dial with the sentinel password, at a peer whose authentication
\* knows it: the peer's auth has ended in failure (handle has returned and
\* closed the connection), the reply Dial drained carries neither the
\* success marker nor the incorrect-password marker, and Dial has returned
\* ErrAuthUnexpectedMessage.
C3_Sentinel ==
    (last.op = "Dial" /\ last.arg \in Sentinels)
        => /\ FailedWith(ErrAuthUnexpectedMessage)
           /\ ~Contains(last.raw, ResponseAuthSuccess)
           /\ ~Contains(last.raw, ResponseAuthIncorrectPassword)
           /\ auth = [Success |-> FALSE, Break |-> TRUE]
           /\ srvPc = "closed"

C3_Witness ==
    /\ last.op = "Dial"
    /\ last.arg = Sentinel
    /\ peer.kind = "telnettest"
    /\ last.err = ErrAuthUnexpectedMessage
    /\ last.raw # <<>>
    /\ srvConn = "closed"

C5_OwnReply ==
    (peer.delay = NoDelay /\ last.op = "Execute" /\ last.err = nil)
        => /\ last.raw = Normalize(Reply(last.arg))
           /\ last.res = ClearResponse(Normalize(Reply(last.arg)), last.arg,
                                       settings.clearResponse)

C5_Witness ==
    /\ peer.delay = NoDelay
    /\ last.op = "Execute"
    /\ last.err = nil
    /\ last.prev.op = "Execute"
    /\ Validate(last.prev.arg) = nil
    /\ Reply(last.prev.arg) # <<>>
    /\ Reply(last.arg) # <<>>
    /\ Reply(last.arg) # Reply(last.prev.arg)
    /\ last.res = Normalize(Reply(last.arg))

\* C6 as the specification states it, and only for peers that answer
\* within the window: with clearing enabled, the result of an Execute that
\* has returned without error does not contain the echo line for its
\* command and the client's address.
C6_NoEcho ==
    (/\ peer.delay = NoDelay
     /\ settings.clearResponse
     /\ last.op = "Execute"
     /\ last.err = nil)
        => ~Contains(last.res, ResponseINFLayout(last.arg, LocalAddr))

\* the echo line Execute looks for, and the text after its first occurrence
EchoTemplate(cmd) == ResponseINFLayout(cmd, LocalAddr) \o CRLF
After(resp, sub) == Drop(resp, Index(resp, sub) + Len(sub) - 1)

\* C7 as the specification states it: with clearing enabled and the echo
\* line in the drained response, Execute has returned all the text after
\* it; otherwise it has returned the drained, trimmed response unchanged.
C7_TextAfterEcho ==
    (last.op = "Execute" /\ last.err = nil)
        => last.res = IF /\ settings.clearResponse
                         /\ Contains(last.raw, EchoTemplate(last.arg))
                      THEN After(last.raw, EchoTemplate(last.arg))
                      ELSE last.raw

\* C8 as the specification states it: an Execute whose reply was sent
\* after its window had ended has returned without that reply, its drained
\* response being only what was late for earlier commands; and the result
\* of an Execute begins with the replies to earlier commands that were
\* late and there when its window ended (up to the white space execute
\* trims).
C8_LateReply ==
    (last.op = "Execute" /\ last.err = nil)
        => /\ last.own # <<>> => last.raw = Normalize(last.due)
           /\ HasPrefix(last.res, TrimSpace(last.due))

\* C9 as the specification states it: the drain is atomic. When execute
\* resets the accumulator the process goes on, and what String() returned,
\* followed by what the reset leaves in the accumulator, is what the relay
\* has put there, unit by unit: none is dropped, none stays behind to be
\* returned again.
C9_AtomicDrain ==
    [][pc = "reset" /\ (pc' # "reset" \/ panicked')
          => /\ ~panicked'
             /\ response \o buffer'
                    = buffer \o Take(s2c, Len(s2c) - Len(s2c'))]_vars

\* C10: when Dial has returned an error, the client has closed the socket.
C10_Cleanup ==
    (last.op = "Dial" /\ last.err # nil) => (cliConn = "closed" /\ pc = "done")

C10_Witness ==
    /\ last.op = "Dial"
    /\ last.err = ErrAuthFailed
    /\ last.wrote = Len(last.arg \o CRLF) + Len(settings.exitCommand \o CRLF)
    /\ cliConn = "closed"

\* C11: a Dial whose authentication failed returns the error of auth
\* unchanged when the close of its cleanup succeeded; when that close
\* failed it returns one error that wraps ErrMultiErrorOccurred and carries
\* the close error and, after it, the error of auth
C11_DialError ==
    (last.op = "Dial" /\ pc = "done" /\ authErr # nil) =>
        IF closeErr = nil
        THEN last.err = authErr
        ELSE /\ HasPrefix(last.err, ErrMultiErrorOccurred)
             /\ Contains(last.err, closeErr)
             /\ HasSuffix(last.err, authErr)
             /\ last.err # closeErr
             /\ last.err # authErr

\* a rejected password, and the close of the cleanup failed
C11_Witness ==
    /\ last.op = "Dial"
    /\ pc = "done"
    /\ authErr = ErrAuthFailed
    /\ closeErr = ErrCloseIO

\* C12: Dial makes one attempt: whatever the peer replies, auth writes the
\* password line to the socket at most once
C12_OneAttempt == pwLines <= 1

\* the peer rejected the password, Dial has cleaned up and returned, and
\* the password line went out once
C12_Witness ==
    /\ last.op = "Dial"
    /\ pc = "done"
    /\ authErr = ErrAuthFailed
    /\ pwLines = 1

\* C13: once Close has returned, an Execute with a valid command fails
\* with the write error of the transport, returns an empty response and
\* puts nothing on the socket
C13_ExecuteAfterClose ==
    (last.op = "Execute" /\ cliConn = "closed" /\ Validate(last.arg) = nil) =>
        (last.err = ErrWrite /\ last.res = <<>> /\ last.wrote = 0)

\* a valid command was executed right after Close
C13_Witness ==
    /\ last.op = "Execute"
    /\ last.prev.op = "Close"
    /\ cliConn = "closed"
    /\ Validate(last.arg) = nil
    /\ last.err = ErrWrite

\* the step in which Close has tried to write the exit command
CloseTriesWrite ==
    \/ c2s' = Deliver(settings.exitCommand \o CRLF)
    \/ FALSE \in WriteOutcomes /\ c2s' = c2s

\* C14: Close tries to write the exit command before it closes the socket,
\* closes the socket also when that write failed, and returns exactly what
\* the close of the socket returned
C14_Close ==
    /\ [](last.op = "Close" => (cliConn = "closed" /\ last.err = closeErr))
    /\ [][(pc # "close_sock" /\ pc' = "close_sock")
              => (CloseTriesWrite /\ cliConn' = cliConn)]_vars
    /\ [][cliConn' # cliConn /\ cliConn' = "closed" => pc = "close_sock"]_vars

\* a second Close: its write failed, the close of the socket was still
\* tried and its error returned
C14_Witness ==
    /\ last.op = "Close"
    /\ last.prev.op = "Close"
    /\ last.wrote = 0
    /\ last.err = ErrClose
    /\ closeErr = ErrClose

----------------------------------------------------------------------------
(* Properties of an interactive session and of the server's Close          *)

\* the forced exit is in no line that interactive has written, and in no
\* line that is still on its way to the peer
TokenNotWritten ==
    /\ \A i \in 1..Len(forwarded) : forwarded[i] # ForcedExitCommand
    /\ ~Contains(c2s, ForcedExitCommand)

\* every input line that is the forced exit was written as the exit command
TokenReplaced ==
    \A i \in 1..Len(forwarded) :
        script[i] = ForcedExitCommand => forwarded[i] = settings.exitCommand

\* C15 as stated: for every configured exit command, an input line equal
\* to the forced exit is written as the exit command and the forced exit
\* itself is never written to the socket
C15_Original == TokenReplaced /\ TokenNotWritten

\* C15: an input line equal to the forced exit is written as the
\* configured exit command; the forced exit itself is never written to
\* the socket, unless it is the configured exit command
C15_ForcedExit ==
    /\ TokenReplaced
    /\ settings.exitCommand # ForcedExitCommand => TokenNotWritten

\* the first input line was the forced exit and went out as "exit"
C15_Witness ==
    /\ Len(forwarded) >= 1
    /\ script[1] = ForcedExitCommand
    /\ forwarded[1] = DefaultExitCommand
    /\ settings.exitCommand = DefaultExitCommand

\* the exit command is the last line interactive has written
ExitForwarded ==
    forwarded # <<>> /\ forwarded[Len(forwarded)] = settings.exitCommand

\* the steps from the end of the loop of interactive to the return of
\* DialInteractive
Leave == InteractiveSleepEnd \/ CloseWrite \/ CloseSocket

\* C16: interactive writes the input lines in their order and writes no
\* line after the first one that is the exit command or the forced exit;
\* after that line the caller only moves towards the return of
\* DialInteractive, is never blocked on the way (unless the process has
\* died), and has closed the socket when it returns
C16_ExitEndsSession ==
    /\ Len(forwarded) <= Len(script)
    /\ \A i \in 1..Len(forwarded) :
          /\ forwarded[i] = Forward(script[i], settings.exitCommand)
          /\ i < Len(forwarded) => forwarded[i] # settings.exitCommand
    /\ ExitForwarded =>
          /\ pc \in {"i_sleep", "close_write", "close_sock", "done"}
          /\ pc = "done" => cliConn = "closed"
          /\ pc # "done" => (panicked \/ ENABLED Leave)

\* the session has returned: the forced exit went out as the exit command
\* and the line after it did not go out
C16_Witness ==
    /\ pc = "done"
    /\ cliConn = "closed"
    /\ script = <<ForcedExitCommand, <<"help">>>>
    /\ forwarded = <<DefaultExitCommand>>

\* C17: when DialInteractive returns, the output stream holds every byte
\* the server has sent, in order.  Stated for a session the server has
\* authenticated and in which every receive wait period of the client
\* outlasted what the server and the relay had to do at once.
C17_AllRelayed ==
    (pc = "done" /\ Interactive /\ auth.Success /\ ~rushed) => buffer = transcript

\* C18: a second Close of a telnettest Server, after the first has
\* returned, returns at once and changes nothing of the server: no channel
\* is closed twice, the listener and the connections are left alone
C18_SecondCloseNoop ==
    /\ [](peer.kind = "telnettest" => ownerPc # "panic")
    /\ [][(peer.kind = "telnettest" /\ closed /\ ownerPc = "run" /\ closes' # closes)
              => (/\ closes' = closes + 1
                  /\ UNCHANGED <<closed, quit, listener, ownerPc, panicked>>
                  /\ UNCHANGED <<srvVars, c2s, s2c, transcript>>)]_vars

\* Close of a telnettest Server has returned twice
C18_Witness ==
    /\ peer.kind = "telnettest"
    /\ closed
    /\ closes = 2
    /\ ownerPc = "run"

\* C19: a second Close of a MockServer, after the first has returned,
\* completes: the process does not die in it
C19_MockCloseTwice ==
    (peer.kind = "mock" /\ closes >= 1) => ownerPc # "panic"

\* the client of an interactive session is connected and has sent nothing
Silent ==
    /\ cliConn = "open"
    /\ pc = "i_scan"
    /\ wrote = 0
    /\ c2s = <<>>
    /\ rbuf = <<>>

\* C20: when Close of the server is called while a handle goroutine is
\* blocked reading the password of a client that sends nothing, Close
\* closes that connection and returns, without the client doing anything
C20_CloseReturns ==
    (ownerPc = "wait" /\ srvPc = "auth" /\ Silent)
        ~> ((ownerPc = "run" /\ srvConn = "closed") \/ ~Silent)

----------------------------------------------------------------------------
(* Properties of the server: its goroutines, authentication and the        *)
(* command loop                                                            *)

\* C21: once Close of the server has returned, serve and every handle
\* goroutine have returned, s.connections is empty and the connection the
\* server accepted is closed; from then on nothing is accepted and nothing
\* is handled
C21_CloseComplete ==
    /\ [](closes >= 1 =>
            /\ servePc = "done"
            /\ srvPc \in {"listen", "closed"}
            /\ connections = {}
            /\ srvConn # "open"
            /\ ~ENABLED SrvAccept)
    /\ [][closes >= 1 => UNCHANGED srvVars]_vars

\* Close has returned on a server that had accepted a connection
C21_Witness ==
    /\ closes >= 1
    /\ ownerPc = "run"
    /\ srvPc = "closed"
    /\ srvConn = "closed"
    /\ nclosed = 1

\* C22: the command handler is given a line only on a connection whose
\* authentication has ended in success; a connection whose authentication
\* has ended otherwise is closed, and nothing of it was ever given to the
\* command handler
C22_AuthBeforeCommands ==
    /\ cmdLog.any => (auth.Break /\ auth.Success)
    /\ srvPc \in {"scan", "sleep"} => (auth.Break /\ auth.Success)
    /\ (authCalls > 0 /\ srvPc # "auth" /\ ~auth.Success) =>
          /\ srvPc = "closed"
          /\ srvConn = "closed"
          /\ ~cmdLog.any

\* the authentication of a connection has ended in failure after the
\* client had sent the password and the exit command
C22_Witness ==
    /\ auth.Break
    /\ ~auth.Success
    /\ srvPc = "closed"
    /\ wrote > PasswordLen
    /\ c2s = <<>>

\* the authentication of the connection has ended because the attempts
\* ran out
OutOfAttempts ==
    /\ authCalls > 0
    /\ srvPc = "closed"
    /\ ~auth.Success
    /\ IF peer.kind = "mock" THEN authRequest # Sentinel ELSE ~auth.Break

\* C23: auth runs the auth handler at most limit times on a connection,
\* and it ends for want of attempts only after limit attempts in a row
\* that were not terminal
C23_AttemptLimit ==
    /\ authCalls <= limit
    /\ OutOfAttempts => authCalls = limit

\* C24: a wrong password before the attempt that reaches the limit is
\* answered with the incorrect-password prompt and the server goes on
\* awaiting a password; a wrong password on the attempt that reaches the
\* limit is answered with the too-many-attempts message instead of the
\* prompt, and the authentication ends in failure.  Stated on what the
\* server writes to the client of an interactive session.
C24_WrongPassword ==
    [][(authCalls' = authCalls + 1 /\ Interactive /\ ~auth'.Success
            /\ authRequest' \notin Sentinels)
        => LET sent == Drop(transcript', Len(transcript))
           IN  IF authCalls' < limit
               THEN /\ sent = ResponseAuthIncorrectPassword \o CRLF
                    /\ srvPc' = "auth"
               ELSE /\ sent = ResponseAuthTooManyFails \o CRLF
                    /\ srvPc' = "closed"]_vars

\* C25: once the command loop has received a line that is the exit
\* command, it gives no later line to the command handler
C25_ExitStopsDispatch == ~cmdLog.late

\* C26: a call of reportError never waits, whatever the channel holds and
\* with nothing receiving from it; the channel never holds more than its
\* capacity; a report made while it is full is dropped and leaves the
\* queued errors as they are, and one made while it has room is queued
\* behind them
C26_ReportNeverBlocks ==
    /\ [](Len(errors) <= ErrorsCap)
    /\ [](\A err \in Reported : ENABLED Report(err))
    /\ [][/\ Len(errors) = ErrorsCap => errors' = errors
          /\ Len(errors) < ErrorsCap =>
                \E err \in Reported \ {nil} : errors' = Append(errors, err)]_errors

\* the channel is full, and the error reported last is queued behind one
\* of another kind
C26_Witness ==
    /\ Len(errors) = ErrorsCap
    /\ errors[ErrorsCap] = ErrCloseConn
    /\ errors[ErrorsCap - 1] = ErrServe

\* serve has surfaced an error of the listener: a Server by its panic, a
\* MockServer by a report
Surfaced ==
    IF peer.kind = "telnettest" THEN servePc = "panic"
    ELSE \E i \in 1..Len(errors) : errors[i] = ErrServe

\* C27: serve never surfaces that Close has closed the listener: s.quit is
\* closed before the listener, so serve, when Accept fails because of
\* Close, finds the server not running and returns in silence.  A failure
\* of the listener that serve meets while the server is running is
\* surfaced, and nothing keeps serve from meeting it.
C27_CloseNotSurfaced ==
    /\ [](Surfaced => listener = "failed")
    /\ [](listener = "closed" => quit = "closed")
    /\ [][(servePc = "accept" /\ servePc' # "accept") => (Surfaced' <=> IsRunning)]_vars
    /\ []((listener = "failed" /\ servePc = "accept" /\ ~panicked) => ENABLED ServeReturn)

\* serve of a MockServer has returned in silence after Close had closed
\* the listener
C27_Witness ==
    /\ peer.kind = "mock"
    /\ servePc = "done"
    /\ listener = "closed"
    /\ quit = "closed"
    /\ errors = <<>>

\* a handle goroutine has registered the connection and has not returned
Handling == srvPc \in {"auth", "scan", "sleep"}

\* C28: s.connections holds exactly the accepted connection whose handle
\* goroutine has registered it and has not returned; a connection in it is
\* open at the server's end; the server closes the connection it accepted
\* once, when handle returns, and never again
C28_LiveConnections ==
    /\ connections = IF Handling THEN {Conn} ELSE {}
    /\ Conn \in connections => srvConn = "open"
    /\ nclosed = IF srvPc \in {"closed", "panic"} THEN 1 ELSE 0
    /\ srvPc \in {"closed", "panic"} <=> srvConn = "closed"

\* the server has handled an authenticated connection to its end and its
\* owner has closed it afterwards
C28_Witness ==
    /\ srvPc = "closed"
    /\ auth.Success
    /\ cmdLog.any
    /\ connections = {}
    /\ nclosed = 1
    /\ closes >= 1

\* the error of a failed read is in the errors channel
ReadReported == \E i \in 1..Len(errors) : errors[i] = ErrReadLine

\* C29: when the client of an authenticated connection closes its end and
\* the stream ends, the command loop ends with no error reported and no
\* panic; the command loop panics or reports an error only for a read
\* that ended otherwise than with the end of the stream
C29_QuietEndOfStream ==
    /\ [][(srvPc = "scan" /\ srvPc' \in {"closed", "panic"} /\ ~Reset)
            => (srvPc' = "closed" /\ errors' = errors /\ ~panicked')]_vars
    /\ [][((srvPc' = "panic" /\ srvPc # "panic") \/ (ReadReported' /\ ~ReadReported))
            => (srvPc = "scan" /\ ClientEOF /\ Reset)]_vars
    /\ [](srvPc \in {"scan", "sleep", "panic"} \/ ReadReported => auth.Success)

\* an authenticated client has read everything and closed, and the
\* command loop has ended in silence
C29_Witness ==
    /\ auth.Success
    /\ cmdLog.any
    /\ cliConn = "closed"
    /\ s2c = <<>>
    /\ srvPc = "closed"
    /\ errors = <<>>
    /\ ~panicked

\* C30: once the auth handler has marked the result as terminal, it is
\* not run again on the connection, and auth returns the success flag: the
\* command loop follows a success and the end of the connection a
\* failure; a text equal to the configured password always gives a
\* terminal success
C30_TerminalResult ==
    /\ [][auth.Break => (authCalls' = authCalls /\ auth' = auth)]_vars
    /\ [][(auth'.Break /\ ~auth.Break)
            => srvPc' = IF auth'.Success THEN "scan" ELSE "closed"]_vars
    /\ [](auth.Success => auth.Break)
    /\ []((auth.Break /\ ~auth.Success) => (srvPc = "closed" /\ ~cmdLog.any))
    /\ []((authCalls > 0 /\ authRequest = peer.password) => (auth.Break /\ auth.Success))

\* the server has read the configured password, has ended the
\* authentication with success and has gone on to the commands
C30_Witness ==
    /\ authCalls = 1
    /\ authRequest = Password
    /\ auth.Break
    /\ auth.Success
    /\ cmdLog.any

----------------------------------------------------------------------------
(* Properties of the settings, of the relay and of a failed Execute        *)

\* the value the options give a field: that of the last option for the
\* field, or the default with no option for it
LastValue(opts, field, default) ==
    LET at == {i \in 1..Len(opts) : opts[i].field = field}
    IN  IF at = {} THEN default
        ELSE opts[CHOOSE i \in at : \A j \in at : j <= i].value

\* the settings a list of options stands for
Chosen(opts) ==
    [dialTimeout   |-> LastValue(opts, "dialTimeout", DefaultDialTimeout),
     exitCommand   |-> LastValue(opts, "exitCommand", DefaultExitCommand),
     clearResponse |-> LastValue(opts, "clearResponse", FALSE)]

\* C31: the settings of a Connection are the default settings with the
\* options applied in their order, so that for one field the last option
\* wins; they never change once the Connection exists; and the package's
\* default settings are what they were, whatever options were given
C31_Settings ==
    /\ [](pc # "start" => settings = Chosen(options))
    /\ [][pc # "start" => (settings' = settings /\ options' = options)]_vars
    /\ [](defaults = DefaultSettings)

\* a Connection made with two options for the exit command has the second
\* one as its exit command, and calls have been made on it
C31_Witness ==
    /\ Len(options) = 3
    /\ options[1] = SetExitCommand(ForcedExitCommand)
    /\ settings.exitCommand = <<"quit">>
    /\ settings.dialTimeout = 1
    /\ ncalls >= 2
    /\ last.op = "Close"


\* C32: a Connection made by Dial has one relay over its whole life: the
\* relay is started by Dial alone, once, with the socket open and the
\* password not yet written; from then on there is a relay, running or
\* stopped, and no Execute and no Close starts it again once it stopped
C32_OneRelay ==
    /\ [](pc = "start" <=> relay = "off")
    /\ [][(relay # "run" /\ relay' = "run")
            => (relay = "off" /\ pc = "start" /\ cliConn' = "open" /\ pwLines' = 0)]_vars
    /\ [][relay # "off" => relay' # "off"]_vars
    /\ [][relay = "stopped" => relay' = "stopped"]_vars

\* the relay of a Connection has stopped and calls of Execute and of Close
\* have returned since
C32_Witness ==
    /\ relay = "stopped"
    /\ last.op = "Close"
    /\ ncalls >= 3
    /\ pwLines = 1


\* the errors a read of the socket can fail with
ReadErrors ==
    {<<"EOF">>, <<"read: connection reset by peer">>,
     <<"read: use of closed network connection">>}

\* a read of the client's socket fails: this end is closed, or the peer has
\* closed its end and every byte it sent has been read
ReadFails == cliConn = "closed" \/ (srvConn = "closed" /\ s2c = <<>>)

\* C33: the relay stops only when a read of the socket fails, the end of the
\* stream included, and its stopping is not surfaced: no call returns a read
\* error; an execute whose write succeeded ends, also with the peer's end
\* closed, with what had been accumulated when it drained (possibly nothing)
\* and no error of its own, so that Execute returns no error and Dial none
\* but the verdict of auth on those bytes
C33_RelayStopsSilently ==
    /\ [][(relay = "run" /\ relay' = "stopped") => ReadFails]_vars
    /\ [](last.err \notin ReadErrors /\ authErr \notin ReadErrors)
    /\ []((last.op = "Execute" /\ last.wrote > 0) => last.err = nil)
    /\ [][(pc = "reset" /\ pc' # "reset")
            => /\ wrote > 0
               /\ op = "Execute" => (/\ last'.op = "Execute"
                                     /\ last'.err = nil
                                     /\ last'.raw = Normalize(response))
               /\ op = "Dial" => authErr' = AuthError(Normalize(response))]_vars

\* the peer has closed the stream, the relay has stopped at its end, and the
\* execute that had written before has come back with what the peer had sent
C33_Witness ==
    /\ relay = "stopped"
    /\ srvConn = "closed"
    /\ cliConn = "open"
    /\ s2c = <<>>
    /\ pc = "close_write"
    /\ wrote > 0
    /\ authErr = ErrAuthFailed
    /\ Contains(status, ResponseAuthIncorrectPassword)


----------------------------------------------------------------------------
(* Properties of the end of a server                                       *)

\* Close of the server is past s.wg.Wait(), at its sweep of s.connections
AtSweep == ownerPc = "wait" /\ WaitOver

\* C34: when Close of a telnettest Server reaches its sweep, s.connections
\* is empty: the sweep closes nothing, and Close, which holds s.mu there,
\* never calls closeConn, which would wait for s.mu; Close returns
C34_SweepFindsNothing ==
    /\ []((peer.kind = "telnettest" /\ AtSweep) => connections = {})
    /\ []((peer.kind = "telnettest" /\ AtSweep /\ ~panicked) => ENABLED ServerCloseReturn)
    /\ [][(peer.kind = "telnettest" /\ ownerPc = "wait" /\ ownerPc' # "wait")
            => (nclosed' = nclosed /\ srvConn' = srvConn /\ closes' = closes + 1)]_vars

\* Close of a telnettest Server is at its sweep, and the server has handled
\* a connection, which handle has closed
C34_Witness ==
    /\ peer.kind = "telnettest"
    /\ AtSweep
    /\ srvPc = "closed"
    /\ nclosed = 1
    /\ connections = {}


\* the goroutines of a MockServer that call reportError, serve and handle,
\* have returned (or handle was never started and never will be)
ReportersDone == servePc = "done" /\ srvPc \in {"listen", "closed"}

\* C35: once Close of a MockServer has closed the errors channel, nothing is
\* reported to it: serve and handle, the goroutines that report, returned
\* before Close closed it, and the channel holds what it held then
C35_NoReportAfterClose ==
    /\ [](errorsClosed => (peer.kind = "mock" /\ ReportersDone))
    /\ [][errorsClosed => errors' = errors]_vars
    /\ [][(errorsClosed' /\ ~errorsClosed) => ReportersDone]_vars

\* Close of a MockServer has closed the errors channel, which holds the
\* error that handle reported of a connection that was reset
C35_Witness ==
    /\ errorsClosed
    /\ srvPc = "closed"
    /\ nclosed = 1
    /\ errors = <<ErrReadLine>>


\* the goroutines that are in the shutdown sequence of Close: past the
\* test of s.closed and not yet returned
InShutdown == {t \in Closers : closerPc[t] \in {"mark", "quit", "listener", "wait", "panic"}}

\* C36: of two goroutines that call Close of one telnettest Server at the
\* same time, one alone runs the shutdown sequence, and the quit channel is
\* closed once: no goroutine closes it again, which is a panic
C36_OneShutdown ==
    /\ Cardinality(InShutdown) <= 1
    /\ \A t \in Closers : closerPc[t] # "panic"


----------------------------------------------------------------------------
(* Properties of a failed Execute, of the end of the relay and of the      *)
(* first request                                                           *)

\* s begins t
IsPrefix(s, t) == Len(s) <= Len(t) /\ SubSeq(t, 1, Len(s)) = s

\* C37: an Execute that fails, on an empty or too long command or on a
\* write that failed, leaves c.buffer and c.status as they were; bytes are
\* taken out of the buffer only by the reset of an execute that succeeds,
\* whose read before it takes all the buffer holds, so that the bytes a
\* failed Execute left are returned by the next one that succeeds
C37_FailureKeepsBuffer ==
    /\ [][(pc = "idle" /\ pc' = "idle" /\ ncalls' = ncalls + 1)
            => (/\ last'.op = "Execute"
                /\ last'.err \in {ErrCommandEmpty, ErrCommandTooLong, ErrWrite}
                /\ buffer' = buffer
                /\ status' = status)]_vars
    /\ [][pc # "reset" => IsPrefix(buffer, buffer')]_vars
    /\ [][(pc = "drain" /\ pc' # "drain") => (response' = buffer /\ buffer' = buffer)]_vars
    /\ [][(pc = "reset" /\ op = "Execute" /\ pc' = "idle")
            => (last'.err = nil /\ last'.raw = Normalize(response))]_vars

\* an Execute of the empty command has failed with bytes in the buffer,
\* which are still there
C37_Witness ==
    /\ pc = "idle"
    /\ last.op = "Execute"
    /\ last.err = ErrCommandEmpty
    /\ buffer # <<>>
    /\ status # <<>>


\* C38: once Close has closed the socket the relay ends, in a process that
\* goes on and whose scheduler is fair; and the relay has not ended while
\* the socket is open at both ends
C38_RelayEnds ==
    /\ (cliConn = "closed") ~> (relay = "stopped" \/ panicked)
    /\ []((cliConn = "closed" /\ relay = "run" /\ ~panicked) => ENABLED RelayStop)
    /\ [](relay = "stopped" => (cliConn = "closed" \/ srvConn = "closed"))
    /\ []((cliConn = "open" /\ srvConn # "closed") => ~ENABLED RelayStop)

\* Close has closed the socket, with the peer's end still open, and the
\* relay has ended
C38_Witness ==
    /\ cliConn = "closed"
    /\ srvConn = "open"
    /\ relay = "stopped"
    /\ last.op = "Close"
    /\ ~panicked


\* the password Dial was given, while the calls on record tell it
DialKnown == op = "Dial" \/ last.op = "Dial" \/ last.prev.op = "Dial"
DialPassword ==
    IF op = "Dial" THEN command
    ELSE IF last.op = "Dial" THEN last.arg
    ELSE last.prev.arg

\* Dial was given the password of the server, which has one
Correct == DialKnown /\ DialPassword = peer.password /\ peer.password # <<>>

\* C39: auth of the server reads as many bytes as its password is long, so
\* the terminator of the line of a correct password stays in the stream
\* when auth succeeds; the first request the command handler is given is
\* that empty line, whatever the client sends afterwards, and a server with
\* no delay has been through it when Dial returns
C39_FirstRequest ==
    /\ [][(Correct /\ srvPc = "auth" /\ srvPc' = "scan")
            => IsPrefix(CRLF, rbuf' \o c2s')]_vars
    /\ []((Correct /\ cmdLog.any) => cmdLog.first = <<>>)
    /\ [][cmdLog.any => (cmdLog'.any /\ cmdLog'.first = cmdLog.first)]_vars
    /\ []((Correct /\ peer.delay = NoDelay /\ last.op = "Dial" /\ last.err = nil)
            => cmdLog.any)

\* after a Dial with the correct password an Execute of help has returned:
\* the first request of the command handler was the empty line
C39_Witness ==
    /\ Correct
    /\ last.op = "Execute"
    /\ last.arg = <<"help">>
    /\ last.err = nil
    /\ last.prev.op = "Dial"
    /\ cmdLog.any
    /\ cmdLog.first = <<>>


\* handle has returned, or has ended in a panic, after its deferred
\* closeConn: the connection is closed and out of s.connections
HandleEnded ==
    /\ srvPc \in {"closed", "panic"}
    /\ srvConn = "closed"
    /\ connections = {}

\* C40: once the client has closed its end of a connection the server
\* handles, handle ends, and the connection is closed and removed from
\* s.connections, in whichever phase handle is: in auth its reads return at
\* once and the attempts that are left are used up, the handler being run
\* no more often than the limit; in the command loop the read ends the loop
C40_HandleEnds ==
    /\ (cliConn = "closed" /\ srvConn = "open") ~> HandleEnded
    /\ []((cliConn = "closed" /\ srvPc = "auth" /\ ~panicked) => ENABLED SrvAuth)
    /\ []((cliConn = "closed" /\ srvPc = "scan" /\ ~panicked) => ENABLED SrvScan)
    /\ [](authCalls <= LastAttempt)
    /\ [][(srvPc = "scan" /\ srvPc' \in {"closed", "panic"}) => cliConn = "closed"]_vars

\* the client closed its end while the server was in auth, which has used
\* up its attempts since, and handle has ended
C40_Witness ==
    /\ cliConn = "closed"
    /\ HandleEnded
    /\ ~auth.Success
    /\ authCalls = LastAttempt
    /\ cmdLog = NoCommand

============================================================================
